---- MODULE Spec2Model ----
(***************************************************************************)
(* Verification model of the Posiflora MCP server (sabraman/posiflora-api): *)
(*   - the RateLimiter token bucket and the rate-limited fetch wrapper,     *)
(*   - createPosifloraServer: resource-template and tool registration,      *)
(*     tool-name sanitising and de-duplication,                             *)
(*   - the tool invocation closure: routing of the flat argument bag to     *)
(*     path / query / body, and the request handed to the HTTP client,      *)
(*   - openApiTypeToZod and the validators it builds,                       *)
(*   - mapHttpStatusCodeToMcpError, the running server and its closures.    *)
(* Strings of the program are modelled as sequences of one-character        *)
(* strings, so that replace / toLowerCase / substring / match are computed  *)
(* character by character as the program computes them.                     *)
(***************************************************************************)
EXTENDS Integers, Sequences, FiniteSets, TLC

VARIABLES
    \* ---- RateLimiter and the invocations going through the fetch wrapper
    now,            \* Date.now(), in ms since the server was created
    maxTokens,      \* RateLimiter.maxTokens (= rps)
    tokens,         \* RateLimiter.tokens, in 1/TokenScale of a token
    lastRefill,     \* RateLimiter.lastRefill
    pc,             \* position of every invocation
    wakeAt,         \* deadline of the setTimeout an invocation sleeps on
    admitted,       \* times at which wait() returned (call admitted to fetch)
    firstIssuedAt,  \* time the first invocation was issued (-1: none yet)
    lastIssuedAt,   \* time the latest invocation was issued (-1: none yet)
    lastDoneAt,     \* time the latest invocation completed (-1: none yet)
    \* ---- createPosifloraServer
    doc,            \* openApiSpec.paths, as the sequence Object.entries yields
    enabledTags,    \* POSIFLORA_ENABLED_TAGS, split
    phase,          \* position in createPosifloraServer
    pathIdx,        \* index of the path entry the running loop is at
    opIdx,          \* index of the method entry the tool loop is at
    registeredResourceTemplates,
    registeredResourceNames,
    registeredToolNames,
    run,            \* 1 for the first call of createPosifloraServer, 2 for the second
    resourceTable,  \* server.registerResource calls (templates), in order
    toolTable,      \* server.registerTool calls, in order
    firstTable,     \* the tables the first call of createPosifloraServer built
    \* ---- tool invocation closure
    op,             \* the registered operation the closure belongs to
    args,           \* the flat argument bag of the invocation
    params,         \* params = { query, path, body } of the closure
    request,        \* what the closure hands to client[METHOD]
    outcome,        \* "none", "assembled", "called" or "raised"
    \* ---- mapHttpStatusCodeToMcpError
    status,         \* the HTTP status handed to mapHttpStatusCodeToMcpError
    errorCode,      \* the ErrorCode it returned ("none": not called yet)
    \* ---- openApiTypeToZod
    node,           \* the schema node handed to openApiTypeToZod
    validator,      \* what the call produced (Pending: not called yet)
    input,          \* the number handed to the validator's parse
    accepted,       \* "accepted" or "rejected" by the parse ("none": not parsed yet)
    \* ---- the running server
    kind,           \* "tool" or "resource": the closure that was invoked last
    stage,          \* where the invocation is: "idle", "waiting", "fetching", "reading"
    fetchAt,        \* time at which fetchFn was called (-1: not yet)
    abortAt,        \* time at which the abort timer fires (-1: not armed)
    wakeUp,         \* time at which the timer of limiter.wait() fires (-1: not armed)
    response,       \* status and parsed payload of the HTTP response
    result,         \* what the closure returned or raised
    reply,          \* the text a discovery tool returned last
    httpCalls       \* calls of fetchFn so far

pacerVars == <<now, maxTokens, tokens, lastRefill, pc, wakeAt,
               admitted, firstIssuedAt, lastIssuedAt, lastDoneAt>>
compileVars == <<doc, enabledTags, phase, pathIdx, opIdx,
                 registeredResourceTemplates, registeredResourceNames,
                 registeredToolNames, run, resourceTable, toolTable, firstTable>>
invokeVars == <<op, args, params, request, outcome>>
classifyVars == <<status, errorCode>>
translateVars == <<node, validator, input, accepted>>
serveVars == <<kind, stage, fetchAt, abortAt, wakeUp, response, result, reply,
               httpCalls>>
extVars == <<classifyVars, translateVars, serveVars>>
vars == <<pacerVars, compileVars, invokeVars, extVars>>

----------------------------------------------------------------------------
(* Bounds of the model *)

NumCallers == 5     \* invocations that may be issued
MaxRps == 2         \* POSIFLORA_RATE_LIMIT_RPS ranges over 1..MaxRps
TickMs == 500       \* granularity of the clock
MaxTime == 2000     \* the clock stops advancing here

(* Program constants *)

TokenScale == 1000  \* refillRate = rps / 1000 tokens per ms

Callers == 1..NumCallers

Min(a, b) == IF a <= b THEN a ELSE b
CeilDiv(a, b) == (a + b - 1) \div b

----------------------------------------------------------------------------
(* class RateLimiter *)

\* constructor(rps): the bucket starts full
RateLimiterNew(rps, t) ==
    [maxTokens |-> rps, tokens |-> rps * TokenScale, lastRefill |-> t]

\* refill(): tokens = min(maxTokens, tokens + delta * refillRate).
\* With tokens kept in 1/TokenScale units, delta * refillRate is delta * rps.
Refill(tok, last, cap, t) ==
    Min(cap * TokenScale, tok + (t - last) * cap)

\* a wait of a full refill interval, whatever is left in the bucket
WaitFullInterval(tok, cap) == CeilDiv(TokenScale, cap)

\* waitTime = (1 - tokens) / refillRate, in ms; the timer fires no earlier
\* than that, so the earliest whole millisecond is the ceiling.
WaitTime(tok, cap) == CeilDiv(TokenScale - tok, cap)

\* a limiter that charges two tokens for a call
DebitTwo(tok) == tok - 2 * TokenScale

\* this.tokens -= 1
Debit(tok) == tok - TokenScale

PacerInit ==
    /\ now = 0
    /\ maxTokens \in 1..MaxRps
    /\ tokens = RateLimiterNew(maxTokens, 0).tokens
    /\ lastRefill = RateLimiterNew(maxTokens, 0).lastRefill
    /\ pc = [c \in Callers |-> "idle"]
    /\ wakeAt = [c \in Callers |-> 0]
    /\ admitted = <<>>
    /\ firstIssuedAt = -1
    /\ lastIssuedAt = -1
    /\ lastDoneAt = -1

\* Invocations carry no data of their own before wait() gives them a timer, so
\* they are issued, and reach wait(), in index order (a symmetry reduction:
\* any other order is this one with the invocations renamed).
\* A tool call (or resource read) is issued: withMiddleware, then
\* client[METHOD](...), which reaches the fetch wrapper.
Issue(c) ==
    /\ UNCHANGED <<compileVars, invokeVars, extVars>>
    /\ pc[c] = "idle"
    /\ IF c = 1 THEN TRUE ELSE pc[c - 1] # "idle"
    /\ pc' = [pc EXCEPT ![c] = "issued"]
    /\ firstIssuedAt' = IF firstIssuedAt = -1 THEN now ELSE firstIssuedAt
    /\ lastIssuedAt' = now
    /\ UNCHANGED <<now, maxTokens, tokens, lastRefill, wakeAt,
                   admitted, lastDoneAt>>

\* limiter.wait() up to its first suspension point: refill(), then either
\* debit at once or start the timer.
Acquire(c) ==
    /\ UNCHANGED <<compileVars, invokeVars, extVars>>
    /\ pc[c] = "issued"
    /\ IF c = 1 THEN TRUE ELSE pc[c - 1] \notin {"idle", "issued"}
    /\ LET t1 == Refill(tokens, lastRefill, maxTokens, now) IN
         /\ lastRefill' = now
         /\ IF t1 < TokenScale
              THEN /\ tokens' = t1
                   /\ wakeAt' = [wakeAt EXCEPT ![c] = now + WaitTime(t1, maxTokens)]
                   /\ pc' = [pc EXCEPT ![c] = "sleeping"]
                   /\ UNCHANGED admitted
              ELSE /\ tokens' = Debit(t1)
                   /\ pc' = [pc EXCEPT ![c] = "fetching"]
                   /\ admitted' = Append(admitted, now)
                   /\ UNCHANGED wakeAt
    /\ UNCHANGED <<now, maxTokens, firstIssuedAt, lastIssuedAt, lastDoneAt>>

\* The timer of wait() fires: refill() again, then debit, with no second test.
Wake(c) ==
    /\ UNCHANGED <<compileVars, invokeVars, extVars>>
    /\ pc[c] = "sleeping"
    /\ now >= wakeAt[c]
    /\ tokens' = Debit(Refill(tokens, lastRefill, maxTokens, now))
    /\ lastRefill' = now
    /\ pc' = [pc EXCEPT ![c] = "fetching"]
    /\ wakeAt' = [wakeAt EXCEPT ![c] = 0]
    /\ admitted' = Append(admitted, now)
    /\ UNCHANGED <<now, maxTokens, firstIssuedAt, lastIssuedAt,
                   lastDoneAt>>

\* fetchFn(input, init) settles, after any latency >= 0
Respond(c) ==
    /\ UNCHANGED <<compileVars, invokeVars, extVars>>
    /\ pc[c] = "fetching"
    /\ pc' = [pc EXCEPT ![c] = "done"]
    /\ lastDoneAt' = now
    /\ UNCHANGED <<now, maxTokens, tokens, lastRefill, wakeAt,
                   admitted, firstIssuedAt, lastIssuedAt>>

\* Time passes
Tick ==
    /\ UNCHANGED <<compileVars, invokeVars, extVars>>
    /\ now + TickMs <= MaxTime
    /\ now' = now + TickMs
    /\ UNCHANGED <<maxTokens, tokens, lastRefill, pc, wakeAt,
                   admitted, firstIssuedAt, lastIssuedAt, lastDoneAt>>

PacerNext ==
    \/ \E c \in Callers : Issue(c)
    \/ \E c \in Callers : Acquire(c)
    \/ \E c \in Callers : Wake(c)
    \/ \E c \in Callers : Respond(c)
    \/ Tick

(* The same up to the return of wait(), with the clock running on while a   *)
(* timer of wait() is armed                                                 *)

NumLiveCallers == 3     \* invocations that may be issued when progress is checked

LiveCallers == 1..NumLiveCallers

\* Time passes: as long as the timer of some wait() has not fired yet, and
\* until MaxTime otherwise
Elapse ==
    /\ UNCHANGED <<compileVars, invokeVars, extVars>>
    /\ \/ now < MaxTime
       \/ \E c \in LiveCallers : pc[c] = "sleeping" /\ now < wakeAt[c]
    /\ now' = now + TickMs
    /\ UNCHANGED <<maxTokens, tokens, lastRefill, pc, wakeAt,
                   admitted, firstIssuedAt, lastIssuedAt, lastDoneAt>>

LiveNext ==
    \/ \E c \in LiveCallers : Issue(c)
    \/ \E c \in LiveCallers : Acquire(c)
    \/ \E c \in LiveCallers : Wake(c)
    \/ Elapse

\* the event loop runs every continuation that is ready and every timer that
\* is due, and time passes
LiveFairness ==
    /\ WF_vars(Elapse)
    /\ \A c \in LiveCallers : WF_vars(Acquire(c)) /\ WF_vars(Wake(c))

----------------------------------------------------------------------------
(* Strings: a string is a sequence of one-character strings *)

UpperChars == <<"A","B","C","D","E","F","G","H","I","J","K","L","M",
                "N","O","P","Q","R","S","T","U","V","W","X","Y","Z">>
LowerChars == <<"a","b","c","d","e","f","g","h","i","j","k","l","m",
                "n","o","p","q","r","s","t","u","v","w","x","y","z">>
DigitChars == <<"0","1","2","3","4","5","6","7","8","9">>

RangeOf(f) == {f[i] : i \in DOMAIN f}

\* String.prototype.toLowerCase, one character
ToLowerChar(ch) ==
    IF \E i \in DOMAIN UpperChars : UpperChars[i] = ch
      THEN LowerChars[CHOOSE i \in DOMAIN UpperChars : UpperChars[i] = ch]
      ELSE ch

\* String.prototype.toLowerCase
ToLowerCase(s) == [i \in DOMAIN s |-> ToLowerChar(s[i])]

\* the character class \s
IsSpace(ch) == ch \in {" ", "\t", "\n"}

\* the character class [a-z0-9_]
IsSafeChar(ch) == ch \in RangeOf(LowerChars) \cup RangeOf(DigitChars) \cup {"_"}

\* s.replace(/x/g, y) for a single character x and a string y
RECURSIVE ReplaceChar(_, _, _)
ReplaceChar(s, x, y) ==
    IF s = <<>> THEN <<>>
    ELSE (IF Head(s) = x THEN y ELSE <<Head(s)>>) \o ReplaceChar(Tail(s), x, y)

\* s.replace(/\s+/g, "_"): every maximal run of white space becomes one "_"
RECURSIVE ReplaceSpaceRuns(_)
ReplaceSpaceRuns(s) ==
    IF s = <<>> THEN <<>>
    ELSE IF IsSpace(Head(s))
      THEN IF Len(s) > 1 /\ IsSpace(s[2])
             THEN ReplaceSpaceRuns(Tail(s))
             ELSE <<"_">> \o ReplaceSpaceRuns(Tail(s))
      ELSE <<Head(s)>> \o ReplaceSpaceRuns(Tail(s))

\* s.replace(/[^a-z0-9_]/g, "_"): character by character, runs are not collapsed
ReplaceUnsafe(s) == [i \in DOMAIN s |-> IF IsSafeChar(s[i]) THEN s[i] ELSE "_"]

\* s.substring(0, n)
Substring0(s, n) == SubSeq(s, 1, Min(Len(s), n))

\* s.includes(ch)
Includes(s, ch) == \E i \in DOMAIN s : s[i] = ch

\* s.replace(/^\/v1\//, "")
StripV1(s) ==
    IF Len(s) >= 4 /\ SubSeq(s, 1, 4) = <<"/", "v", "1", "/">>
      THEN SubSeq(s, 5, Len(s))
      ELSE s

\* `${i}` for an integer i >= 0
RECURSIVE IntToStr(_)
IntToStr(i) ==
    IF i < 10 THEN <<DigitChars[i + 1]>>
    ELSE IntToStr(i \div 10) \o <<DigitChars[(i % 10) + 1]>>

\* `${name}_${i}`
Suffixed(name, i) == name \o <<"_">> \o IntToStr(i)

\* pathUrl.match(/{([^}]+)}/g), each match sliced (1, -1): the path keys, in order
RECURSIVE PathKeysFrom(_, _)
PathKeysFrom(s, i) ==
    IF i > Len(s) THEN <<>>
    ELSE IF s[i] = "{" /\ \E j \in (i + 2)..Len(s) : s[j] = "}"
      THEN LET j == CHOOSE k \in (i + 1)..Len(s) :
                        /\ s[k] = "}"
                        /\ \A m \in (i + 1)..(k - 1) : s[m] # "}"
           IN IF j = i + 1
                THEN PathKeysFrom(s, i + 1)
                ELSE <<SubSeq(s, i + 1, j - 1)>> \o PathKeysFrom(s, j + 1)
      ELSE PathKeysFrom(s, i + 1)

PathKeys(pathUrl) == PathKeysFrom(pathUrl, 1)

----------------------------------------------------------------------------
(* OpenAPI schema nodes.  A node lists the keys it carries in `keys`; the   *)
(* other fields hold the values of those keys (and are ignored otherwise).  *)
(* A $ref is "#/components/schemas/<ref>" and is resolved in the            *)
(* document's components.schemas, given as a function from names to nodes.  *)

\* the value of exclusiveMinimum / exclusiveMaximum: a boolean (legacy form)
\* or a number (modern form)
BooleanValue(b) == [is |-> "boolean", b |-> b, n |-> 0]
NumberValue(n) == [is |-> "number", b |-> FALSE, n |-> n]

EmptyNode ==
    [keys |-> {}, ref |-> <<>>, variants |-> <<>>, type |-> "", enum |-> <<>>,
     format |-> "", patternValid |-> TRUE, properties |-> <<>>, required |-> {},
     items |-> <<>>, additionalProperties |-> <<>>,
     minimum |-> 0, maximum |-> 0, exclusiveMinimum |-> BooleanValue(FALSE),
     exclusiveMaximum |-> BooleanValue(FALSE), multipleOf |-> 1]

TypeNode(t) == [EmptyNode EXCEPT !.keys = {"type"}, !.type = t]
RefNode(name) == [EmptyNode EXCEPT !.keys = {"$ref"}, !.ref = name]
ObjectNode(props, req) ==
    [EmptyNode EXCEPT !.keys = {"type", "properties", "required"},
                      !.type = "object", !.properties = props, !.required = req]
ArrayNode(items) ==
    [EmptyNode EXCEPT !.keys = {"type", "items"}, !.type = "array", !.items = items]
AllOfNode(members) == [EmptyNode EXCEPT !.keys = {"allOf"}, !.variants = members]
OneOfNode(members) == [EmptyNode EXCEPT !.keys = {"oneOf"}, !.variants = members]

(* Zod validators *)

ZAny == [kind |-> "any"]
ZString == [kind |-> "string"]
ZNumber == [kind |-> "number"]
ZBoolean == [kind |-> "boolean"]
ZEnum(values) == [kind |-> "enum", values |-> values]
ZDateTime == [kind |-> "datetime"]
ZUndefined == [kind |-> "undefined"]    \* variants[0] of an empty list
ZArray(of) == [kind |-> "array", of |-> of]
ZRecord(of) == [kind |-> "record", of |-> of]
ZUnion(vs) == [kind |-> "union", options |-> vs]
ZObject(shape) == [kind |-> "object", shape |-> shape]
ZOptional(v) == [kind |-> "optional", inner |-> v]

\* the checks of a number validator: .min(x) / .gt(x), .max(x) / .lt(x),
\* .multipleOf(x)
MinCheck(x, inclusive) == [kind |-> "min", value |-> x, inclusive |-> inclusive]
MaxCheck(x, inclusive) == [kind |-> "max", value |-> x, inclusive |-> inclusive]
MultipleOfCheck(x) == [kind |-> "multipleOf", value |-> x, inclusive |-> TRUE]

\* z.number() with checks added
ZNumberWith(checks) ==
    IF checks = <<>> THEN ZNumber ELSE [kind |-> "number", checks |-> checks]

\* the checks of a validator
ChecksOf(v) == IF "checks" \in DOMAIN v THEN v.checks ELSE <<>>

\* one check of a number validator on the number x
CheckHolds(c, x) ==
    IF c.kind = "min" THEN (IF c.inclusive THEN x >= c.value ELSE x > c.value)
    ELSE IF c.kind = "max" THEN (IF c.inclusive THEN x <= c.value ELSE x < c.value)
    ELSE c.value # 0 /\ x % (IF c.value < 0 THEN -c.value ELSE IF c.value = 0 THEN 1 ELSE c.value) = 0

\* validator.safeParse(x).success for a number x
ParseNumber(v, x) ==
    /\ v.kind \in {"number", "any"}
    /\ \A i \in DOMAIN ChecksOf(v) : CheckHolds(ChecksOf(v)[i], x)

\* the shape of an object validator built from a list of [name, validator]
ShapeOf(fields) ==
    [n \in {fields[i].name : i \in DOMAIN fields} |->
        fields[CHOOSE i \in DOMAIN fields :
                 /\ fields[i].name = n
                 /\ \A j \in DOMAIN fields : fields[j].name = n => j <= i].v]

\* Object.assign(a, b) on shapes, and acc.merge(curr) on object validators
Assign(a, b) ==
    [n \in (DOMAIN a) \cup (DOMAIN b) |-> IF n \in DOMAIN b THEN b[n] ELSE a[n]]

\* a merge in which the field of the earlier member wins
RECURSIVE MergeAllFirstWins(_)
MergeAllFirstWins(vs) ==
    IF Len(vs) = 1 THEN vs[1]
    ELSE ZObject(Assign(vs[Len(vs)].shape,
                        MergeAllFirstWins(SubSeq(vs, 1, Len(vs) - 1)).shape))

RECURSIVE MergeAll(_)
MergeAll(vs) ==
    IF Len(vs) = 1 THEN vs[1]
    ELSE ZObject(Assign(MergeAll(SubSeq(vs, 1, Len(vs) - 1)).shape, vs[Len(vs)].shape))

MaxDepth == 6       \* call frames the stack holds for nested openApiTypeToZod calls

\* the exceptions openApiTypeToZod can end with: RangeError (call stack
\* exhausted), TypeError, SyntaxError (new RegExp of an invalid pattern)
IsError(v) == v.kind \in {"RangeError", "TypeError", "SyntaxError"}
AnyError(vs) == \E i \in DOMAIN vs : IsError(vs[i])
FirstError(vs) ==
    vs[CHOOSE i \in DOMAIN vs :
         IsError(vs[i]) /\ \A j \in DOMAIN vs : j < i => ~IsError(vs[j])]

\* "Build rich description": zodSchema.describe(...) when the node has a title,
\* description, default or example
Described(schema, z) ==
    IF z.kind = "undefined" /\ "description" \in schema.keys
      THEN [kind |-> "TypeError"]
      ELSE z

\* schema.exclusiveMinimum === true, typeof schema.exclusiveMinimum === "number"
IsTrue(schema, key) == key \in schema.keys /\ schema[key].is = "boolean" /\ schema[key].b
IsNumber(schema, key) == key \in schema.keys /\ schema[key].is = "number"

\* case "integer" / "number": the checks added to z.number()
NumberChecks(schema) ==
    (IF "minimum" \in schema.keys
       THEN <<MinCheck(schema.minimum, ~IsTrue(schema, "exclusiveMinimum"))>>
       ELSE IF IsNumber(schema, "exclusiveMinimum")
         THEN <<MinCheck(schema.exclusiveMinimum.n, FALSE)>>
         ELSE <<>>)
    \o (IF "maximum" \in schema.keys
          THEN <<MaxCheck(schema.maximum, ~IsTrue(schema, "exclusiveMaximum"))>>
          ELSE IF IsNumber(schema, "exclusiveMaximum")
            THEN <<MaxCheck(schema.exclusiveMaximum.n, FALSE)>>
            ELSE <<>>)
    \o (IF "multipleOf" \in schema.keys
          THEN <<MultipleOfCheck(schema.multipleOf)>>
          ELSE <<>>)

\* openApiTypeToZod(schema, spec) as the call at nesting level `depth`, without
\* the text of the describe() annotation, which does not change the
\* validator's class or shape.  An exception is returned as a value and
\* propagates through the calls above it.
RECURSIVE OpenApiTypeToZodAt(_, _, _)
OpenApiTypeToZodAt(schema, schemas, depth) ==
    IF depth > MaxDepth THEN [kind |-> "RangeError"]
    ELSE IF "$ref" \in schema.keys
      THEN IF schema.ref \in DOMAIN schemas
             THEN OpenApiTypeToZodAt(schemas[schema.ref], schemas, depth + 1)
             ELSE ZAny
    ELSE IF "oneOf" \in schema.keys \/ "anyOf" \in schema.keys
      THEN LET variants == [i \in DOMAIN schema.variants |->
                               OpenApiTypeToZodAt(schema.variants[i], schemas,
                                                  depth + 1)]
           IN IF AnyError(variants) THEN FirstError(variants)
              ELSE IF Len(variants) > 1 THEN ZUnion(variants)
              ELSE IF Len(variants) = 1 THEN Described(schema, variants[1])
              ELSE Described(schema, ZUndefined)
    ELSE IF "allOf" \in schema.keys
      THEN LET variants == [i \in DOMAIN schema.variants |->
                               OpenApiTypeToZodAt(schema.variants[i], schemas,
                                                  depth + 1)]
           IN IF AnyError(variants) THEN FirstError(variants)
              ELSE IF variants = <<>> THEN [kind |-> "TypeError"]
              ELSE IF \A i \in DOMAIN variants : variants[i].kind = "object"
                THEN MergeAll(variants)
                ELSE Described(schema, variants[1])
    ELSE IF "type" \notin schema.keys THEN ZAny
    ELSE IF schema.type = "string"
      THEN IF "enum" \in schema.keys /\ Len(schema.enum) > 0 THEN ZEnum(schema.enum)
           ELSE IF schema.format \in {"date-time", "date"}
             THEN ZUnion(<<ZDateTime, ZString>>)
           ELSE IF "pattern" \in schema.keys /\ ~schema.patternValid
             THEN [kind |-> "SyntaxError"]
             ELSE ZString
    ELSE IF schema.type \in {"integer", "number"} THEN ZNumberWith(NumberChecks(schema))
    ELSE IF schema.type = "boolean" THEN ZBoolean
    ELSE IF schema.type = "array"
      THEN LET of == OpenApiTypeToZodAt(IF "items" \in schema.keys THEN schema.items
                                        ELSE EmptyNode, schemas, depth + 1)
           IN IF IsError(of) THEN of ELSE ZArray(of)
    ELSE IF schema.type = "object"
      THEN IF "properties" \in schema.keys
             THEN LET fields ==
                        [i \in DOMAIN schema.properties |->
                           LET f == OpenApiTypeToZodAt(schema.properties[i].schema,
                                                       schemas, depth + 1)
                           IN IF IsError(f) THEN f
                              ELSE IF schema.properties[i].name \in schema.required
                                THEN f
                              ELSE IF f.kind = "undefined"
                                THEN [kind |-> "TypeError"]
                                ELSE ZOptional(f)]
                  IN IF AnyError(fields) THEN FirstError(fields)
                     ELSE ZObject(ShapeOf(
                            [i \in DOMAIN fields |->
                               [name |-> schema.properties[i].name,
                                v |-> fields[i]]]))
           ELSE IF "additionalProperties" \in schema.keys
             THEN LET of == OpenApiTypeToZodAt(schema.additionalProperties, schemas,
                                               depth + 1)
                  IN IF IsError(of) THEN of ELSE ZRecord(of)
             ELSE ZRecord(ZAny)
    ELSE ZAny

\* openApiTypeToZod(schema, spec) called from createPosifloraServer
OpenApiTypeToZod(schema, schemas) == OpenApiTypeToZodAt(schema, schemas, 1)

----------------------------------------------------------------------------
(* The OpenAPI documents the model compiles *)

NumOpIds == 7       \* operationIds are drawn from the first NumOpIds of OpIdList

(* Program constants *)

MaxNameLen == 64    \* substring(0, 64)
FirstSuffix == 2    \* let i = 2

GET == <<"g", "e", "t">>
POST == <<"p", "o", "s", "t">>
PUT == <<"p", "u", "t">>
PATCH == <<"p", "a", "t", "c", "h">>
DELETE == <<"d", "e", "l", "e", "t", "e">>
PARAMETERS == <<"p", "a", "r", "a", "m", "e", "t", "e", "r", "s">>

\* ["parameters", "summary", "description"]: keys of a path item that hold no operation
NonOperationKeys == {PARAMETERS, <<"s", "u", "m", "m", "a", "r", "y">>, <<"d", "e", "s", "c", "r", "i", "p", "t", "i", "o", "n">>}

\* operationId values; <<>> stands for a missing (or empty) operationId
LongId == [i \in 1..MaxNameLen |-> "a"]
OpIdList ==
    << <<>>, <<"g", "e", "t", "I", "t", "e", "m">>, <<"g", "e", "t", "i", "t", "e", "m", "_", "2">>, LongId, <<"l", "i", "s", "t", "_", "t", "a", "g", "s">>,
       <<"g", "e", "t", "-", "i", "t", "e", "m">>, <<"g", "e", "t", " ", " ", "i", "t", "e", "m">>, <<"g", "e", "t", "_", "s", "e", "r", "v", "e", "r", "_", "s", "t", "a", "t", "u", "s">>, <<"G", "e", "t", "I", "t", "e", "m">> >>
OpIds == {OpIdList[i] : i \in 1..Min(NumOpIds, Len(OpIdList))}

ItemsUrl == <<"/", "v", "1", "/", "i", "t", "e", "m", "s">>
ItemUrl == <<"/", "v", "1", "/", "i", "t", "e", "m", "s", "/", "{", "i", "d", "}">>
LineUrl == <<"/", "v", "1", "/", "o", "/", "{", "a", "}", "/", "{", "b", "}">>

ParId == [name |-> <<"i", "d">>, in |-> "path", required |-> TRUE,
          schema |-> TypeNode("string")]
ParIdQuery == [name |-> <<"i", "d">>, in |-> "query", required |-> FALSE,
               schema |-> TypeNode("string")]
ParLimit == [name |-> <<"l", "i", "m", "i", "t">>, in |-> "query", required |-> FALSE,
             schema |-> TypeNode("integer")]
ParTrace == [name |-> <<"t", "r", "a", "c", "e">>, in |-> "header", required |-> FALSE,
             schema |-> TypeNode("string")]

ItemSchema ==
    ObjectNode(<< [name |-> <<"n", "a", "m", "e">>, schema |-> TypeNode("string")],
                  [name |-> <<"i", "d">>, schema |-> TypeNode("string")] >>,
               {<<"n", "a", "m", "e">>})
TagsSchema == ArrayNode(TypeNode("string"))

\* components.schemas of the document
Schemas == [n \in {<<"I", "t", "e", "m">>, <<"T", "a", "g", "s">>} |->
              IF n = <<"I", "t", "e", "m">> THEN ItemSchema ELSE TagsSchema]

NoBody == [present |-> FALSE, hasSchema |-> FALSE, schema |-> EmptyNode]
Body(schema) == [present |-> TRUE, hasSchema |-> TRUE, schema |-> schema]

\* a member of a path item: the key (method) and its value, an operation object
Operation(method, tags, parameters, requestBody) ==
    [method |-> method, value |-> "object", operationId |-> <<>>, tags |-> tags,
     parameters |-> parameters, requestBody |-> requestBody]

\* a member of a path item whose value is no object: a string or null; every
\* property read from a string is undefined
Member(key, value) == [Operation(key, {}, <<>>, NoBody) EXCEPT !.value = value]

\* "x-note": "..." and "x-internal": null
XNote == Member(<<"x", "-", "n", "o", "t", "e">>, "string")
XInternal == Member(<<"x", "-", "i", "n", "t", "e", "r", "n", "a", "l">>, "null")

\* the entry Object.entries(pathItem) yields for the key "parameters"
ParametersEntry == Operation(PARAMETERS, {}, <<>>, NoBody)

OpGetItem == Operation(GET, {"Items"}, <<ParId, ParLimit>>, NoBody)
OpPutItem == Operation(PUT, {"Items"}, <<ParLimit>>, Body(RefNode(<<"I", "t", "e", "m">>)))
OpDeleteItem == Operation(DELETE, {"Admin"}, <<ParId, ParIdQuery>>,
                          Body(RefNode(<<"I", "t", "e", "m">>)))
OpListItems == Operation(GET, {}, <<ParLimit, ParTrace>>, NoBody)
OpPostItem ==
    Operation(POST, {"Admin", "Items"}, <<>>,
              Body(ObjectNode(<< [name |-> <<"n", "a", "m", "e">>, schema |-> TypeNode("string")],
                                 [name |-> <<"l", "i", "m", "i", "t">>, schema |-> TypeNode("integer")] >>,
                              {})))
OpGetLine == Operation(GET, {"Items"}, <<>>, Body(RefNode(<<"I", "t", "e", "m">>)))
OpPatchTags == Operation(PATCH, {"Admin"}, <<>>, Body(RefNode(<<"T", "a", "g", "s">>)))
OpPostRaw == Operation(POST, {}, <<ParLimit>>, Body(TypeNode("string")))
OpGetAdmin == Operation(GET, {"Admin"}, <<>>, NoBody)

PathEntry(url, parameters, entries) ==
    [url |-> url, parameters |-> parameters, entries |-> entries]

\* document skeletons: the paths object without the operationIds
DocShapes ==
    { << PathEntry(ItemUrl, <<ParId>>, <<ParametersEntry, OpGetItem, OpPutItem>>) >>,
      << PathEntry(ItemUrl, <<>>, <<OpGetItem, OpDeleteItem>>),
         PathEntry(LineUrl, <<>>, <<OpGetLine>>) >>,
      << PathEntry(ItemsUrl, <<>>, <<OpListItems, OpPostItem>>),
         PathEntry(LineUrl, <<>>, <<OpGetLine, OpPatchTags>>) >>,
      << PathEntry(LineUrl, <<>>, <<OpPostRaw>>) >>,
      << PathEntry(ItemsUrl, <<>>, <<XNote, OpListItems>>) >>,
      << PathEntry(ItemsUrl, <<>>, <<OpListItems, XInternal>>) >>,
      << PathEntry(LineUrl, <<>>, <<OpGetAdmin>>) >> }

\* the positions (path index, entry index) of a document, in document order
Positions(d) ==
    UNION {{<<p, e>> : e \in DOMAIN d[p].entries} : p \in DOMAIN d}

\* the positions that hold an operation
OpPositions(d) ==
    {q \in Positions(d) : /\ d[q[1]].entries[q[2]].method \notin NonOperationKeys
                           /\ d[q[1]].entries[q[2]].value = "object"}

\* a skeleton with operationIds filled in
WithIds(shape, ids) ==
    [p \in DOMAIN shape |->
        [shape[p] EXCEPT !.entries =
            [e \in DOMAIN shape[p].entries |->
                IF <<p, e>> \in DOMAIN ids
                  THEN [shape[p].entries[e] EXCEPT !.operationId = ids[<<p, e>>]]
                  ELSE shape[p].entries[e]]]]

Docs == UNION {{WithIds(shape, ids) : ids \in [OpPositions(shape) -> OpIds]} :
               shape \in DocShapes}

\* values of POSIFLORA_ENABLED_TAGS, split and trimmed
TagConfigs == {{}, {"Items"}}

----------------------------------------------------------------------------
(* createPosifloraServer *)

ApiScheme == <<"p", "o", "s", "i", "f", "l", "o", "r", "a", ":", "/", "/", "a", "p", "i">>
ListTags == <<"l", "i", "s", "t", "_", "t", "a", "g", "s">>
GetServerStatus == <<"g", "e", "t", "_", "s", "e", "r", "v", "e", "r", "_", "s", "t", "a", "t", "u", "s">>

\* the name a resource template is registered under, before de-duplication:
\* getOp.operationId || pathUrl.replace(/^\/v1\//, "").replace(/\//g, "_")
\*                             .replace(/[{}]/g, "")
ResourceCandidate(operationId, pathUrl) ==
    IF operationId # <<>> THEN operationId
    ELSE ReplaceChar(ReplaceChar(ReplaceChar(StripV1(pathUrl), "/", <<"_">>),
                                 "{", <<>>), "}", <<>>)

\* op.operationId || `${method}_${pathUrl.replace(/\//g, "_").replace(/[{}]/g, "")}`
OperationId(operationId, method, pathUrl) ==
    IF operationId # <<>> THEN operationId
    ELSE method \o <<"_">> \o
         ReplaceChar(ReplaceChar(ReplaceChar(pathUrl, "/", <<"_">>), "{", <<>>),
                     "}", <<>>)

\* toolName = operationId.replace(/-/g, "_").replace(/\s+/g, "_").toLowerCase()
ToolName(operationId) ==
    ToLowerCase(ReplaceSpaceRuns(ReplaceChar(operationId, "-", <<"_">>)))

\* safeToolName = toolName.replace(/[^a-z0-9_]/g, "_").substring(0, 64)
SafeToolName(toolName) == Substring0(ReplaceUnsafe(toolName), MaxNameLen)

\* let i = 2; while (registered.has(`${name}_${i}`)) i++;
RECURSIVE FreeSuffix(_, _, _)
FreeSuffix(name, registered, i) ==
    IF Suffixed(name, i) \in registered
      THEN FreeSuffix(name, registered, i + 1)
      ELSE i

\* a de-duplication that appends _2 without looking for a free suffix
DeduplicateNoLoop(name, registered) ==
    IF name \in registered THEN Suffixed(name, FirstSuffix) ELSE name

\* "Deduplicate name" / "Deduplicate tool names"
Deduplicate(name, registered) ==
    IF name \in registered
      THEN Suffixed(name, FreeSuffix(name, registered, FirstSuffix))
      ELSE name

\* a filter that wants every tag of the operation enabled
FilteredOutUnlessAllEnabled(opTags, enabled) ==
    /\ enabled # {}
    /\ ~(opTags \subseteq enabled)

\* enabledTags.length > 0 && !opTags.some(tag => enabledTags.includes(tag))
FilteredOut(opTags, enabled) ==
    /\ enabled # {}
    /\ opTags \cap enabled = {}

\* allParams = [...pathParams, ...opParams]
AllParams(pathItem, operation) == pathItem.parameters \o operation.parameters

\* the argument name of a request body that is not an object:
\* "body", or the last segment of the schema's $ref
BodyArgName(schema) ==
    IF "$ref" \in schema.keys THEN schema.ref ELSE <<"b", "o", "d", "y">>

\* "1. Path parameters": shape[param.name] = schema, optional unless required
ParamFields(allParams) ==
    LET used == SelectSeq(allParams, LAMBDA q : q.in \in {"path", "query"})
    IN [i \in DOMAIN used |->
           [name |-> used[i].name,
            v |-> LET z == OpenApiTypeToZod(used[i].schema, Schemas)
                  IN IF used[i].required THEN z ELSE ZOptional(z)]]

\* "2. Request Body": the fields the request body adds to the shape
BodyShape(requestBody) ==
    IF ~(requestBody.present /\ requestBody.hasSchema) THEN <<>>
    ELSE LET zodSchema == OpenApiTypeToZod(requestBody.schema, Schemas)
         IN IF zodSchema.kind = "object"
              THEN zodSchema.shape
              ELSE [n \in {BodyArgName(requestBody.schema)} |-> ZOptional(zodSchema)]

\* inputSchema of the tool
ToolShape(allParams, requestBody) ==
    Assign(ShapeOf(ParamFields(allParams)), BodyShape(requestBody))

Names(table) == {table[i].name : i \in DOMAIN table}

\* a set of tool names that outlives the call that filled it
KeptToolNameSet(previous) == previous

\* const registeredToolNames = new Set<string>(): every call of
\* createPosifloraServer starts from an empty set, whatever an earlier call left
NewToolNameSet(previous) == {}

\* one set of names for tools and resource templates alike
SharedNamespace == registeredToolNames \cup registeredResourceNames

\* registeredToolNames.has(...): the names a tool name is de-duplicated against
ToolNamespace == registeredToolNames

\* new McpServer(...) and the sets of resource templates and names: the state a
\* call of createPosifloraServer starts from
FreshRegistry ==
    [templates |-> {}, resourceNames |-> {}, resources |-> <<>>, tools |-> <<>>]

\* a resource scan that looks only at the GET operations the tag filter enables
EnabledGetOps(pathItem) ==
    SelectSeq(pathItem.entries,
              LAMBDA e : e.method = GET /\ ~FilteredOut(e.tags, enabledTags))

\* const getOp = pathItem.get
GetOps(pathItem) == SelectSeq(pathItem.entries, LAMBDA e : e.method = GET)

CompileInit ==
    /\ doc \in Docs
    /\ enabledTags \in TagConfigs
    /\ phase = "resources"
    /\ pathIdx = 1
    /\ opIdx = 1
    /\ registeredResourceTemplates = FreshRegistry.templates
    /\ registeredResourceNames = FreshRegistry.resourceNames
    /\ registeredToolNames = NewToolNameSet({})
    /\ resourceTable = FreshRegistry.resources
    /\ toolTable = FreshRegistry.tools
    /\ run = 1
    /\ firstTable = <<>>

\* One iteration of "for (const [pathUrl, pathItem] of Object.entries(paths))"
\* in "Register Resources (Templates)"
RegisterResource ==
    /\ UNCHANGED <<pacerVars, invokeVars, extVars>>
    /\ phase = "resources"
    /\ pathIdx <= Len(doc)
    /\ LET pathItem == doc[pathIdx]
           pathUrl == pathItem.url
           gets == GetOps(pathItem)
           resourcePath == ApiScheme \o pathUrl
       IN IF /\ gets # <<>>
             /\ Includes(pathUrl, "{")
             /\ resourcePath \notin registeredResourceTemplates
            THEN LET candidate == ResourceCandidate(gets[1].operationId, pathUrl)
                     resourceName == Deduplicate(candidate, registeredResourceNames)
                 IN /\ registeredResourceTemplates' =
                           registeredResourceTemplates \cup {resourcePath}
                    /\ registeredResourceNames' =
                           registeredResourceNames \cup {resourceName}
                    /\ resourceTable' =
                           Append(resourceTable,
                                  [name |-> resourceName, candidate |-> candidate,
                                   template |-> resourcePath, pathUrl |-> pathUrl])
            ELSE UNCHANGED <<registeredResourceTemplates, registeredResourceNames,
                             resourceTable>>
    /\ IF pathIdx = Len(doc)
         THEN phase' = "tools" /\ pathIdx' = 1
         ELSE phase' = phase /\ pathIdx' = pathIdx + 1
    /\ UNCHANGED <<doc, enabledTags, opIdx, registeredToolNames, run, toolTable,
                   firstTable>>

\* server.registerTool(name, ...): the SDK rejects a name that is registered
\* already, by throwing out of createPosifloraServer
RegisterTool(entry, nextPhase) ==
    /\ toolTable' = Append(toolTable, entry)
    /\ phase' = IF entry.name \in Names(toolTable) THEN "raised" ELSE nextPhase

\* One iteration of "for (const [method, operation] of Object.entries(pathItem))"
\* in "Iterate over paths and register tools"
RegisterOperation ==
    /\ UNCHANGED <<pacerVars, invokeVars, extVars>>
    /\ phase = "tools"
    /\ LET pathItem == doc[pathIdx]
           pathUrl == pathItem.url
           operation == pathItem.entries[opIdx]
           method == operation.method
           last == pathIdx = Len(doc) /\ opIdx = Len(pathItem.entries)
           nextPhase == IF last THEN "list_tags" ELSE "tools"
       IN /\ IF method \in NonOperationKeys
               THEN /\ phase' = nextPhase
                    /\ UNCHANGED <<registeredToolNames, toolTable>>
             ELSE IF operation.value = "null"
               \* op.tags or op.operationId of null: a TypeError leaves
               \* createPosifloraServer
               THEN /\ phase' = "raised"
                    /\ UNCHANGED <<registeredToolNames, toolTable>>
             ELSE IF FilteredOut(operation.tags, enabledTags)
               THEN /\ phase' = nextPhase
                    /\ UNCHANGED <<registeredToolNames, toolTable>>
               ELSE LET operationId ==
                            OperationId(operation.operationId, method, pathUrl)
                        candidate == SafeToolName(ToolName(operationId))
                        safeToolName == Deduplicate(candidate, ToolNamespace)
                        allParams == AllParams(pathItem, operation)
                    IN /\ registeredToolNames' = registeredToolNames \cup {safeToolName}
                       /\ RegisterTool([name |-> safeToolName,
                                        operationId |-> operationId,
                                        candidate |-> candidate,
                                        synthetic |-> FALSE,
                                        shape |-> ToolShape(allParams,
                                                            operation.requestBody),
                                        pathUrl |-> pathUrl,
                                        method |-> method,
                                        allParams |-> allParams,
                                        requestBody |-> operation.requestBody],
                                       nextPhase)
          /\ IF opIdx < Len(pathItem.entries)
               THEN opIdx' = opIdx + 1 /\ pathIdx' = pathIdx
               ELSE opIdx' = 1 /\ pathIdx' = IF last THEN pathIdx ELSE pathIdx + 1
    /\ UNCHANGED <<doc, enabledTags, registeredResourceTemplates,
                   registeredResourceNames, run, resourceTable, firstTable>>

\* An entry of toolTable or resourceTable keeps, next to what is registered, the
\* name before de-duplication (candidate) and, for a tool, before sanitising
\* (operationId), so that the naming can be stated.
\* the entry of a discovery tool: no arguments, no HTTP operation behind it
SyntheticTool(name) ==
    [name |-> name, operationId |-> name, candidate |-> name, synthetic |-> TRUE,
     shape |-> <<>>, pathUrl |-> <<>>, method |-> <<>>, allParams |-> <<>>,
     requestBody |-> NoBody]

\* "Register discovery tool: list_tags"
RegisterListTags ==
    /\ UNCHANGED <<pacerVars, invokeVars, extVars>>
    /\ phase = "list_tags"
    /\ RegisterTool(SyntheticTool(ListTags), "get_server_status")
    /\ UNCHANGED <<doc, enabledTags, pathIdx, opIdx, registeredResourceTemplates,
                   registeredResourceNames, registeredToolNames, run,
                   resourceTable, firstTable>>

\* "Register discovery tool: get_server_status"
RegisterServerStatus ==
    /\ UNCHANGED <<pacerVars, invokeVars, extVars>>
    /\ phase = "get_server_status"
    /\ RegisterTool(SyntheticTool(GetServerStatus), "done")
    /\ UNCHANGED <<doc, enabledTags, pathIdx, opIdx, registeredResourceTemplates,
                   registeredResourceNames, registeredToolNames, run,
                   resourceTable, firstTable>>

\* createPosifloraServer is called a second time with the same document and
\* environment (as the integration tests do, once per test)
Recompile ==
    /\ UNCHANGED <<pacerVars, invokeVars, extVars>>
    /\ phase = "done"
    /\ run = 1
    /\ run' = 2
    /\ firstTable' = <<[resources |-> resourceTable, tools |-> toolTable]>>
    /\ phase' = "resources"
    /\ pathIdx' = 1
    /\ opIdx' = 1
    /\ registeredResourceTemplates' = FreshRegistry.templates
    /\ registeredResourceNames' = FreshRegistry.resourceNames
    /\ registeredToolNames' = NewToolNameSet(registeredToolNames)
    /\ resourceTable' = FreshRegistry.resources
    /\ toolTable' = FreshRegistry.tools
    /\ UNCHANGED <<doc, enabledTags>>

CompileNext ==
    \/ RegisterResource
    \/ RegisterOperation
    \/ RegisterListTags
    \/ RegisterServerStatus
    \/ Recompile

----------------------------------------------------------------------------
(* The tool invocation closure: async (args) => { ... } *)

NumArgValues == 3   \* argument values are drawn from the first NumArgValues of ValueList

\* kinds of argument value; "undefined" is an argument that is not supplied
ValueList == <<"undefined", "string", "null", "number", "object", "boolean">>
Values == {ValueList[i] : i \in 1..Min(NumArgValues, Len(ValueList))}

ArgNames == {<<"i", "d">>, <<"l", "i", "m", "i", "t">>, <<"n", "a", "m", "e">>, <<"a">>, <<"T", "a", "g", "s">>, <<"b", "o", "d", "y">>,
             <<"e", "x", "t", "r", "a">>}

\* String.prototype.toUpperCase
ToUpperChar(ch) ==
    IF \E i \in DOMAIN LowerChars : LowerChars[i] = ch
      THEN UpperChars[CHOOSE i \in DOMAIN LowerChars : LowerChars[i] = ch]
      ELSE ch
ToUpperCase(s) == [i \in DOMAIN s |-> ToUpperChar(s[i])]

\* the methods of the openapi-fetch client
ClientMethods == {ToUpperCase(m) : m \in {GET, PUT, POST, DELETE, PATCH,
                                          <<"o", "p", "t", "i", "o", "n", "s">>, <<"h", "e", "a", "d">>, <<"t", "r", "a", "c", "e">>}}

\* args[name]
Arg(a, name) == IF name \in DOMAIN a THEN a[name] ELSE "undefined"

\* the entries of `a` under the names in `names` whose value is not undefined
Defined(a, names) ==
    [n \in {m \in names : Arg(a, m) # "undefined"} |-> a[n]]

\* "Find path keys": params.path[key] = args[key] for every {key} of pathUrl
PathPart(o, a) == Defined(a, RangeOf(PathKeys(o.pathUrl)))

\* "Remaining args -> Query or Body?": the declared query parameters
QueryNames(allParams) ==
    {allParams[i].name : i \in {j \in DOMAIN allParams : allParams[j].in = "query"}}
\* a routing that takes every path or query parameter for a query parameter
QueryPartOfAllParams(o, a) ==
    Defined(a, {o.allParams[i].name :
                  i \in {j \in DOMAIN o.allParams : o.allParams[j].in \in {"path", "query"}}})

QueryPart(o, a) == Defined(a, QueryNames(o.allParams))

\* a body handling that does not look at the method
AnyMethodHasBody(method) == TRUE

\* ["post", "put", "patch"].includes(method)
HasBodyMethod(method) == method \in {POST, PUT, PATCH}

\* "Request Body handling": params.body
BodyPart(o, a) ==
    IF /\ HasBodyMethod(o.method)
       /\ o.requestBody.present
       /\ o.requestBody.hasSchema
      THEN LET zodSchema == OpenApiTypeToZod(o.requestBody.schema, Schemas)
               argName == BodyArgName(o.requestBody.schema)
           IN IF zodSchema.kind = "object"
                THEN [kind |-> "fields", fields |-> Defined(a, DOMAIN zodSchema.shape)]
                ELSE IF Arg(a, argName) # "undefined"
                  THEN [kind |-> "value", value |-> Arg(a, argName)]
                  ELSE [kind |-> "fields", fields |-> <<>>]
      ELSE [kind |-> "fields", fields |-> <<>>]

\* lines 379-439: params = { query, path, body }
AssembleParams(o, a) ==
    [path |-> PathPart(o, a), query |-> QueryPart(o, a), body |-> BodyPart(o, a)]

\* Object.keys(x).length, for x an object of the closure or an argument value;
\* -1 stands for the TypeError Object.keys raises on null.  A string, an
\* object and an array stand for non-empty ones ("emptyArray" is []); a number
\* and a boolean have no keys.
KeyCount(x) ==
    IF x.kind = "fields" THEN Cardinality(DOMAIN x.fields)
    ELSE IF x.value = "null" THEN -1
    ELSE IF x.value \in {"string", "object", "array"} THEN 1
    ELSE 0

Absent == [present |-> FALSE]
Present(x) == [present |-> TRUE, value |-> x]

\* a client call that passes every partition as it is, empty or not
AlwaysPassed(x) == Present(x)

\* Object.keys(x).length ? x : undefined
OrUndefined(x) == IF KeyCount(x) > 0 THEN Present(x) ELSE Absent

NoRequest == [method |-> <<>>, pathUrl |-> <<>>, path |-> Absent, query |-> Absent,
              body |-> Absent]

\* lines 441-455: client[method.toUpperCase()](pathUrl, { params, body })
ClientCall(o, p) ==
    IF KeyCount(p.body) < 0 \/ ToUpperCase(o.method) \notin ClientMethods
      THEN [outcome |-> "raised", request |-> NoRequest]
      ELSE [outcome |-> "called",
            request |-> [method |-> ToUpperCase(o.method),
                         pathUrl |-> o.pathUrl,
                         path |-> OrUndefined([kind |-> "fields", fields |-> p.path]),
                         query |-> OrUndefined([kind |-> "fields", fields |-> p.query]),
                         body |-> OrUndefined(p.body)]]

\* what createPosifloraServer registers for one operation of a path item
ClosureOf(pathItem, operation) ==
    [name |-> SafeToolName(ToolName(OperationId(operation.operationId,
                                                operation.method, pathItem.url))),
     operationId |-> OperationId(operation.operationId, operation.method,
                                 pathItem.url),
     candidate |-> SafeToolName(ToolName(OperationId(operation.operationId,
                                                     operation.method, pathItem.url))),
     synthetic |-> FALSE,
     shape |-> ToolShape(AllParams(pathItem, operation), operation.requestBody),
     pathUrl |-> pathItem.url,
     method |-> operation.method,
     allParams |-> AllParams(pathItem, operation),
     requestBody |-> operation.requestBody]

\* the closures of the operations of the document skeletons
Closures ==
    UNION {{ClosureOf(shape[q[1]], shape[q[1]].entries[q[2]]) : q \in OpPositions(shape)} :
           shape \in DocShapes}

NoParams == [path |-> <<>>, query |-> <<>>, body |-> [kind |-> "fields", fields |-> <<>>]]

InvokeInit ==
    /\ op \in Closures
    /\ args \in [ArgNames -> Values]
    /\ params = NoParams
    /\ request = NoRequest
    /\ outcome = "none"

\* the closure up to withMiddleware: "Separate args into path, query, and body"
Assemble ==
    /\ UNCHANGED <<pacerVars, compileVars, extVars>>
    /\ outcome = "none"
    /\ params' = AssembleParams(op, args)
    /\ outcome' = "assembled"
    /\ UNCHANGED <<op, args, request>>

\* withMiddleware(..., async () => client[METHOD](pathUrl, ...))
Execute ==
    /\ UNCHANGED <<pacerVars, compileVars, extVars>>
    /\ outcome = "assembled"
    /\ outcome' = ClientCall(op, params).outcome
    /\ request' = ClientCall(op, params).request
    /\ UNCHANGED <<op, args, params>>

InvokeNext ==
    \/ Assemble
    \/ Execute

----------------------------------------------------------------------------
(* The tool invocation closure on request bodies that are no objects *)

\* operations whose request-body schema is an integer, a boolean and {}
OpPostCount == Operation(POST, {}, <<>>, Body(TypeNode("integer")))
OpPutFlag == Operation(PUT, {}, <<ParLimit>>, Body(TypeNode("boolean")))
OpPatchAny == Operation(PATCH, {}, <<>>, Body(EmptyNode))

\* the closures of the operations with a request body that is no object
BodyClosures ==
    {ClosureOf(PathEntry(ItemsUrl, <<>>, <<o>>), o) :
        o \in {OpPostCount, OpPutFlag, OpPatchAny, OpPatchTags, OpPostRaw}}

\* the kinds of value an argument can have
BodyValues == {"undefined", "string", "number", "boolean", "object", "array",
               "emptyArray", "null"}

BodyArgNames == {<<"b", "o", "d", "y">>, <<"T", "a", "g", "s">>, <<"l", "i", "m", "i", "t">>}

\* inputSchema: shape -- the protocol layer parses the arguments with the
\* registered validators before it calls the closure
RECURSIVE Accepts(_, _)
Accepts(v, x) ==
    IF v.kind = "any" THEN TRUE
    ELSE IF v.kind = "optional" THEN x = "undefined" \/ Accepts(v.inner, x)
    ELSE IF v.kind = "union" THEN \E i \in DOMAIN v.options : Accepts(v.options[i], x)
    ELSE IF v.kind \in {"string", "enum", "datetime"} THEN x = "string"
    ELSE IF v.kind = "number" THEN x = "number"
    ELSE IF v.kind = "boolean" THEN x = "boolean"
    ELSE IF v.kind = "array" THEN x \in {"array", "emptyArray"}
    ELSE IF v.kind \in {"object", "record"} THEN x = "object"
    ELSE FALSE

\* the argument bag passes the validation against the tool's inputSchema
ValidArgs(shape, a) == \A n \in DOMAIN shape : Accepts(shape[n], Arg(a, n))

BodyInit ==
    /\ op \in BodyClosures
    /\ args \in {a \in [BodyArgNames -> BodyValues] : ValidArgs(op.shape, a)}
    /\ params = NoParams
    /\ request = NoRequest
    /\ outcome = "none"

----------------------------------------------------------------------------
(* mapHttpStatusCodeToMcpError (utils.ts) *)

MinStatus == 100    \* HTTP statuses range over MinStatus..MaxStatus
MaxStatus == 599

Statuses == MinStatus..MaxStatus

\* the ErrorCode values of the MCP SDK that the mapping uses
InvalidParams == "InvalidParams"        \* -32602
InvalidRequest == "InvalidRequest"      \* -32600
MethodNotFound == "MethodNotFound"      \* -32601
InternalError == "InternalError"        \* -32603

\* a mapping that takes 404 for an unsupported method
MapNotFoundToMethodNotFound(s) ==
    IF s = 400 THEN InvalidParams
    ELSE IF s = 401 \/ s = 403 THEN InvalidRequest
    ELSE IF s = 404 \/ s = 405 THEN MethodNotFound
    ELSE InternalError

MapHttpStatusCodeToMcpError(s) ==
    IF s = 400 THEN InvalidParams
    ELSE IF s = 401 \/ s = 403 THEN InvalidRequest
    ELSE IF s = 404 THEN InvalidParams
    ELSE IF s = 405 THEN MethodNotFound
    ELSE IF s >= 500 THEN InternalError
    ELSE InternalError

ClassifyInit ==
    /\ status \in Statuses
    /\ errorCode = "none"

\* mapHttpStatusCodeToMcpError(status)
Classify ==
    /\ UNCHANGED <<pacerVars, compileVars, invokeVars, translateVars, serveVars>>
    /\ errorCode = "none"
    /\ errorCode' = MapHttpStatusCodeToMcpError(status)
    /\ UNCHANGED status

ClassifyNext == Classify

----------------------------------------------------------------------------
(* The running server: invocations of the registered closures.             *)
(* createPosifloraServer runs to completion first (phase "done"); then the  *)
(* protocol layer calls tool closures, resource read closures and the two   *)
(* discovery tools.  One HTTP-backed invocation is in flight at a time; the *)
(* discovery tools can be called at any moment.                             *)

ServeTickMs == 30000    \* the clock of the running server advances by at most this
ServeMaxTime == 60000   \* and stops here
MaxHttpCalls == 2       \* invocations that reach the fetch wrapper
ServeRps == 1           \* POSIFLORA_RATE_LIMIT_RPS of the running server

(* Program constants *)

AbortAfterMs == 30000   \* setTimeout(() => controller.abort(), 30000)
DiscoveryTools == 2     \* registeredToolNames.size + 2
SpecResources == 1      \* registeredResourceTemplates.size + 1

\* statuses the HTTP collaborator answers with
ServeStatuses == {200, 400, 401, 405, 503}

\* response.ok
Ok(s) == s >= 200 /\ s <= 299

\* what the client parsed from the body of the response: nothing (empty body),
\* JSON null, a string that is not JSON, or a JSON object
Payloads == {"empty", "null", "text", "json"}

\* documents the running server was compiled from
ServeDocs ==
    {WithIds(shape, [q \in OpPositions(shape) |-> <<>>]) :
        shape \in {s \in DocShapes : Len(s) = 2}}

\* the argument bags the protocol layer calls a tool closure with
ServeBags == {[n \in ArgNames |-> v] : v \in {"string", "null"}}

NoText == [form |-> "none", status |-> 0, payload |-> "none"]
NoResult == [kind |-> "none", isError |-> FALSE, errorCode |-> "none",
             class |-> "none", text |-> NoText]
NoResponse == [status |-> 0, payload |-> "none"]

\* an exception that leaves the closure as it was thrown: withMiddleware logs
\* it and rethrows, and neither closure has a catch of its own
Rethrown(class) ==
    [kind |-> "raised", isError |-> FALSE, errorCode |-> "none", class |-> class,
     text |-> [form |-> "message", status |-> 0, payload |-> class]]

\* errorData = error || { message: "Unknown API Error" } (tools),
\*             error || { title: "Not Found", ... } (resources);
\* errorMsg = typeof errorData === "string" ? errorData : JSON.stringify(errorData)
ErrorMsg(payload) == IF payload \in {"empty", "null"} THEN "default" ELSE payload

\* `API Error (${status}): ${errorMsg}`
ApiErrorText(s, payload) ==
    [form |-> "API Error", status |-> s, payload |-> ErrorMsg(payload)]

\* a tool closure that throws on a failed call, as the resource closure does
ToolResultThrowing(resp) ==
    IF ~Ok(resp.status)
      THEN [kind |-> "raised", isError |-> FALSE,
            errorCode |-> MapHttpStatusCodeToMcpError(resp.status),
            class |-> "McpError",
            text |-> ApiErrorText(resp.status, resp.payload)]
      ELSE [kind |-> "returned", isError |-> FALSE, errorCode |-> "none",
            class |-> "none",
            text |-> [form |-> "data", status |-> resp.status,
                      payload |-> resp.payload]]

\* lines 457-476: what the tool closure returns for { data, error, response }
ToolResult(resp) ==
    IF ~Ok(resp.status)
      THEN [kind |-> "returned", isError |-> TRUE,
            errorCode |-> MapHttpStatusCodeToMcpError(resp.status),
            class |-> "none",
            text |-> ApiErrorText(resp.status, resp.payload)]
      ELSE [kind |-> "returned", isError |-> FALSE, errorCode |-> "none",
            class |-> "none",
            text |-> [form |-> "data", status |-> resp.status,
                      payload |-> resp.payload]]

\* a resource closure that answers a failed call with a contents payload
ResourceResultSoft(resp) ==
    [kind |-> "returned", isError |-> FALSE, errorCode |-> "none", class |-> "none",
     text |-> [form |-> "contents", status |-> resp.status,
               payload |-> resp.payload]]

\* lines 231-257: what the resource read closure does with { data, error, response }
ResourceResult(resp) ==
    IF ~Ok(resp.status)
      THEN [kind |-> "raised", isError |-> FALSE,
            errorCode |-> MapHttpStatusCodeToMcpError(resp.status),
            class |-> "McpError",
            text |-> ApiErrorText(resp.status, resp.payload)]
      ELSE [kind |-> "returned", isError |-> FALSE, errorCode |-> "none",
            class |-> "none",
            text |-> [form |-> "contents", status |-> resp.status,
                      payload |-> resp.payload]]

\* the tags list_tags collects from the operations of the document
TagsOf(d) ==
    UNION {UNION {d[p].entries[e].tags : e \in DOMAIN d[p].entries} : p \in DOMAIN d}

\* a status report that counts the calls served along with the tools
StatusReportCountingCalls ==
    [totalToolsRegistered |->
         Cardinality(registeredToolNames) + DiscoveryTools + httpCalls,
     totalResourcesRegistered |->
         Cardinality(registeredResourceTemplates) + SpecResources,
     activeTagFilters |-> enabledTags]

\* the counts get_server_status reports
StatusReport ==
    [totalToolsRegistered |-> Cardinality(registeredToolNames) + DiscoveryTools,
     totalResourcesRegistered |->
         Cardinality(registeredResourceTemplates) + SpecResources,
     activeTagFilters |-> enabledTags]

\* the closure of a resource template, as an operation: GET on its path
ResourceClosure(r) ==
    [SyntheticTool(r.name) EXCEPT !.synthetic = FALSE, !.pathUrl = r.pathUrl,
                                  !.method = GET]

\* the variables the protocol layer extracts from the URI: one string per {key}
Variables(pathUrl) == [n \in RangeOf(PathKeys(pathUrl)) |-> "string"]

\* client.GET(pathUrl, { params: { path: variables } })
ResourceCall(r) ==
    [outcome |-> "called",
     request |-> [method |-> ToUpperCase(GET), pathUrl |-> r.pathUrl,
                  path |-> Present([kind |-> "fields",
                                    fields |-> Variables(r.pathUrl)]),
                  query |-> Absent, body |-> Absent]]

\* a discovery tool that goes through the client like any other tool
CallsClientAlways(e) == TRUE

\* whether the handler registered for a tool calls client[METHOD]: the
\* closures of the document's operations do, the two discovery handlers do not
CallsClient(e) == ~e.synthetic

pacerRest == <<maxTokens, pc, wakeAt, admitted, firstIssuedAt, lastIssuedAt,
               lastDoneAt>>

ServeInit ==
    /\ kind = "none"
    /\ stage = "idle"
    /\ fetchAt = -1
    /\ abortAt = -1
    /\ wakeUp = -1
    /\ response = NoResponse
    /\ result = NoResult
    /\ reply = NoText
    /\ httpCalls = 0

\* the fetch wrapper up to its first suspension: limiter.wait() refills and
\* either sleeps or debits; after the debit the abort timer is armed and
\* fetchFn is called
EnterFetch ==
    LET t1 == Refill(tokens, lastRefill, maxTokens, now) IN
      /\ lastRefill' = now
      /\ IF t1 < TokenScale
           THEN /\ tokens' = t1
                /\ stage' = "waiting"
                /\ wakeUp' = now + WaitTime(t1, maxTokens)
                /\ UNCHANGED <<fetchAt, abortAt, httpCalls>>
           ELSE /\ tokens' = Debit(t1)
                /\ stage' = "fetching"
                /\ fetchAt' = now
                /\ abortAt' = now + AbortAfterMs
                /\ httpCalls' = httpCalls + 1
                /\ UNCHANGED wakeUp

\* the protocol layer calls the handler of a registered tool
InvokeTool(e, a) ==
    /\ UNCHANGED <<compileVars, classifyVars, translateVars, pacerRest, now, reply>>
    /\ phase = "done"
    /\ stage = "idle"
    /\ httpCalls < MaxHttpCalls
    /\ CallsClient(e)
    /\ kind' = "tool"
    /\ op' = e
    /\ args' = a
    /\ response' = NoResponse
    /\ LET assembled == AssembleParams(e, a)
           call == ClientCall(e, assembled)
       IN /\ params' = assembled
          /\ outcome' = call.outcome
          /\ request' = call.request
          /\ IF call.outcome = "raised"
               THEN /\ result' = Rethrown("TypeError")
                    /\ UNCHANGED <<stage, fetchAt, abortAt, wakeUp, httpCalls,
                                   tokens, lastRefill>>
               ELSE /\ result' = NoResult
                    /\ EnterFetch

\* the protocol layer reads a resource: async (uri, variables) => { ... }
ReadResource(r) ==
    /\ UNCHANGED <<compileVars, classifyVars, translateVars, pacerRest, now, reply>>
    /\ phase = "done"
    /\ stage = "idle"
    /\ httpCalls < MaxHttpCalls
    /\ kind' = "resource"
    /\ op' = ResourceClosure(r)
    /\ args' = Variables(r.pathUrl)
    /\ params' = [NoParams EXCEPT !.path = Variables(r.pathUrl)]
    /\ outcome' = ResourceCall(r).outcome
    /\ request' = ResourceCall(r).request
    /\ response' = NoResponse
    /\ result' = NoResult
    /\ EnterFetch

\* the timer of limiter.wait() fires: refill, debit, arm the abort timer, call
\* fetchFn
WakeUp ==
    /\ UNCHANGED <<compileVars, classifyVars, translateVars, pacerRest, invokeVars,
                   now, kind, response, result, reply>>
    /\ stage = "waiting"
    /\ now >= wakeUp
    /\ tokens' = Debit(Refill(tokens, lastRefill, maxTokens, now))
    /\ lastRefill' = now
    /\ stage' = "fetching"
    /\ wakeUp' = -1
    /\ fetchAt' = now
    /\ abortAt' = now + AbortAfterMs
    /\ httpCalls' = httpCalls + 1

\* fetchFn(...) resolves with a Response (status line and headers received);
\* .finally clears the abort timer; the client goes on to read the body
FetchResolves(s) ==
    /\ UNCHANGED <<compileVars, classifyVars, translateVars, pacerVars, invokeVars,
                   kind, fetchAt, wakeUp, result, reply, httpCalls>>
    /\ stage = "fetching"
    /\ stage' = "reading"
    /\ abortAt' = -1
    /\ response' = [status |-> s, payload |-> "none"]

\* fetchFn(...) rejects (connection refused, DNS failure, ...); .finally clears
\* the abort timer and the rejection leaves the closure through withMiddleware
FetchRejects ==
    /\ UNCHANGED <<compileVars, classifyVars, translateVars, pacerVars, invokeVars,
                   kind, fetchAt, wakeUp, response, reply, httpCalls>>
    /\ stage = "fetching"
    /\ stage' = "idle"
    /\ abortAt' = -1
    /\ result' = Rethrown("FetchError")

\* the abort timer fires while fetchFn is pending: controller.abort() makes
\* fetchFn reject with an AbortError
Abort ==
    /\ UNCHANGED <<compileVars, classifyVars, translateVars, pacerVars, invokeVars,
                   kind, fetchAt, wakeUp, response, reply, httpCalls>>
    /\ stage = "fetching"
    /\ now >= abortAt
    /\ stage' = "idle"
    /\ abortAt' = -1
    /\ result' = Rethrown("AbortError")

\* the client has read and parsed the body: { data, error, response } reaches
\* the closure, which builds its result
BodyRead(payload) ==
    /\ UNCHANGED <<compileVars, classifyVars, translateVars, pacerVars, invokeVars,
                   kind, fetchAt, abortAt, wakeUp, reply, httpCalls>>
    /\ stage = "reading"
    /\ stage' = "idle"
    /\ response' = [response EXCEPT !.payload = payload]
    /\ result' = IF kind = "tool"
                   THEN ToolResult([response EXCEPT !.payload = payload])
                   ELSE ResourceResult([response EXCEPT !.payload = payload])

\* reading the body fails (the connection drops, or the body of a 2xx response
\* is not JSON): the client rejects and the rejection leaves the closure
BodyFails ==
    /\ UNCHANGED <<compileVars, classifyVars, translateVars, pacerVars, invokeVars,
                   kind, fetchAt, abortAt, wakeUp, response, reply, httpCalls>>
    /\ stage = "reading"
    /\ stage' = "idle"
    /\ result' = Rethrown("BodyError")

\* list_tags is called: lines 488-510
InvokeListTags ==
    /\ UNCHANGED <<compileVars, classifyVars, translateVars, pacerVars, invokeVars,
                   kind, stage, fetchAt, abortAt, wakeUp, response, result>>
    /\ phase = "done"
    /\ \E e \in RangeOf(toolTable) : e.name = ListTags /\ e.synthetic
    /\ IF CallsClient(SyntheticTool(ListTags))
         THEN httpCalls' = httpCalls + 1
         ELSE httpCalls' = httpCalls
    /\ reply' = [form |-> "tags", status |-> Cardinality(TagsOf(doc)),
                 payload |-> "none"]

\* get_server_status is called: lines 519-541
InvokeServerStatus ==
    /\ UNCHANGED <<compileVars, classifyVars, translateVars, pacerVars, invokeVars,
                   kind, stage, fetchAt, abortAt, wakeUp, response, result>>
    /\ phase = "done"
    /\ \E e \in RangeOf(toolTable) : e.name = GetServerStatus /\ e.synthetic
    /\ IF CallsClient(SyntheticTool(GetServerStatus))
         THEN httpCalls' = httpCalls + 1
         ELSE httpCalls' = httpCalls
    /\ reply' = [form |-> "status", status |-> StatusReport.totalToolsRegistered,
                 payload |-> "none"]

\* time passes, up to the next timer that is armed
Advance ==
    /\ UNCHANGED <<compileVars, classifyVars, translateVars, pacerRest, invokeVars,
                   tokens, lastRefill, serveVars>>
    /\ phase = "done"
    /\ now < ServeMaxTime
    /\ ~(stage = "fetching" /\ now >= abortAt)
    /\ ~(stage = "waiting" /\ now >= wakeUp)
    /\ LET due == IF stage = "fetching" THEN abortAt
                  ELSE IF stage = "waiting" THEN wakeUp
                  ELSE now + ServeTickMs
       IN now' = Min(Min(now + ServeTickMs, due), ServeMaxTime)

ServeNext ==
    \/ RegisterResource
    \/ RegisterOperation
    \/ RegisterListTags
    \/ RegisterServerStatus
    \/ \E e \in RangeOf(toolTable) : \E a \in ServeBags : InvokeTool(e, a)
    \/ \E r \in RangeOf(resourceTable) : ReadResource(r)
    \/ WakeUp
    \/ \E s \in ServeStatuses : FetchResolves(s)
    \/ FetchRejects
    \/ Abort
    \/ \E p \in Payloads : BodyRead(p)
    \/ BodyFails
    \/ InvokeListTags
    \/ InvokeServerStatus
    \/ Advance

----------------------------------------------------------------------------
(* openApiTypeToZod on schema nodes, well-formed and not *)

\* components.schemas of a document with recursive schemas:
\*   Self: { $ref: Self };  Ping: { $ref: Pong }, Pong: { $ref: Ping };
\*   Tree: { type: object, properties: { next: { $ref: Tree } } }
TranslateSchemaNames == {<<"I", "t", "e", "m">>, <<"T", "a", "g", "s">>, <<"S", "e", "l", "f">>, <<"P", "i", "n", "g">>, <<"P", "o", "n", "g">>, <<"T", "r", "e", "e">>}
TranslateSchemas ==
    [n \in TranslateSchemaNames |->
        IF n = <<"I", "t", "e", "m">> THEN ItemSchema
        ELSE IF n = <<"T", "a", "g", "s">> THEN TagsSchema
        ELSE IF n = <<"S", "e", "l", "f">> THEN RefNode(<<"S", "e", "l", "f">>)
        ELSE IF n = <<"P", "i", "n", "g">> THEN RefNode(<<"P", "o", "n", "g">>)
        ELSE IF n = <<"P", "o", "n", "g">> THEN RefNode(<<"P", "i", "n", "g">>)
        ELSE ObjectNode(<< [name |-> <<"n", "e", "x", "t">>, schema |-> RefNode(<<"T", "r", "e", "e">>)] >>, {})]

\* types a node may name; "file" and "null" are not among the handled ones
NodeTypes == {"string", "integer", "number", "boolean", "array", "object", "file",
              "null"}

\* nodes without members
LeafNodes ==
    {EmptyNode}
    \cup {TypeNode(t) : t \in NodeTypes}
    \cup {RefNode(n) : n \in TranslateSchemaNames \cup {<<"M", "i", "s", "s", "i", "n", "g">>}}
    \cup {[TypeNode("string") EXCEPT !.keys = {"type", "enum"}, !.enum = e] :
            e \in {<<>>, <<"a", "b">>}}
    \cup {[TypeNode("string") EXCEPT !.keys = {"type", "format"}, !.format = f] :
            f \in {"date-time", "uuid"}}
    \cup {[TypeNode("string") EXCEPT !.keys = {"type", "pattern"}, !.patternValid = v] :
            v \in BOOLEAN}
    \cup {[EmptyNode EXCEPT !.keys = {k}] : k \in {"oneOf", "anyOf", "allOf"}}
    \cup {[EmptyNode EXCEPT !.keys = {k, "description"}] : k \in {"oneOf", "allOf"}}
    \cup {[TypeNode("object") EXCEPT !.keys = {"type", "additionalProperties"},
                                     !.additionalProperties = TypeNode("string")]}

\* nodes with one level of members
NestingNodes ==
    UNION {{ArrayNode(l),
            ObjectNode(<< [name |-> <<"x">>, schema |-> l] >>, {}),
            ObjectNode(<< [name |-> <<"x">>, schema |-> l] >>, {<<"x">>}),
            OneOfNode(<<l>>),
            OneOfNode(<<TypeNode("string"), l>>),
            AllOfNode(<<l>>),
            AllOfNode(<<ItemSchema, l>>)} : l \in LeafNodes}

\* an object schema that declares `id` again, as a required integer, and a
\* field of its own; one that declares `name` again, as a boolean
IdSchema ==
    ObjectNode(<< [name |-> <<"i", "d">>, schema |-> TypeNode("integer")],
                  [name |-> <<"e", "x", "t", "r", "a">>, schema |-> TypeNode("string")] >>,
               {<<"i", "d">>})
FlagSchema ==
    ObjectNode(<< [name |-> <<"n", "a", "m", "e">>, schema |-> TypeNode("boolean")] >>, {})

\* allOf nodes whose members share fields, and whose first member is no object
MergeNodes ==
    {AllOfNode(<<ItemSchema, IdSchema>>),
     AllOfNode(<<IdSchema, ItemSchema>>),
     AllOfNode(<<ItemSchema, IdSchema, FlagSchema>>),
     AllOfNode(<<RefNode(<<"I", "t", "e", "m">>), FlagSchema>>),
     AllOfNode(<<TypeNode("string"), ItemSchema>>),
     AllOfNode(<<ArrayNode(TypeNode("string")), IdSchema, FlagSchema>>)}

SchemaNodes == LeafNodes \cup NestingNodes \cup MergeNodes

Pending == [kind |-> "pending"]

TranslateInit ==
    /\ node \in SchemaNodes
    /\ validator = Pending
    /\ input = 0
    /\ accepted = "none"

\* openApiTypeToZod(node, openApiSpec)
Translate ==
    /\ UNCHANGED <<pacerVars, compileVars, invokeVars, classifyVars, serveVars>>
    /\ validator = Pending
    /\ validator' = OpenApiTypeToZod(node, TranslateSchemas)
    /\ UNCHANGED <<node, input, accepted>>

TranslateNext == Translate

----------------------------------------------------------------------------
(* openApiTypeToZod on integer / number nodes, and the validator it builds  *)
(* on numbers                                                               *)

MaxValue == 11      \* the numbers parsed range over -1..MaxValue

\* the numbers handed to the validator
NumberValues == -1..MaxValue

\* integer / number nodes with every combination of minimum, maximum,
\* exclusiveMinimum, exclusiveMaximum (absent, boolean or numeric) and multipleOf
NumberNodes ==
    {[TypeNode(t) EXCEPT
         !.keys = {"type"} \cup lo.keys \cup hi.keys \cup mo,
         !.minimum = 0, !.maximum = 10, !.multipleOf = 3,
         !.exclusiveMinimum = lo.v, !.exclusiveMaximum = hi.v] :
       t \in {"integer", "number"},
       lo \in {[keys |-> ks, v |-> x] :
                 ks \in SUBSET {"minimum", "exclusiveMinimum"},
                 x \in {BooleanValue(TRUE), BooleanValue(FALSE), NumberValue(5)}},
       hi \in {[keys |-> ks, v |-> x] :
                 ks \in SUBSET {"maximum", "exclusiveMaximum"},
                 x \in {BooleanValue(TRUE), BooleanValue(FALSE), NumberValue(8)}},
       mo \in SUBSET {"multipleOf"}}

NumberInit ==
    /\ node \in NumberNodes
    /\ validator = Pending
    /\ input \in NumberValues
    /\ accepted = "none"

\* the validator registered for the argument parses the number
Parse ==
    /\ UNCHANGED <<pacerVars, compileVars, invokeVars, classifyVars, serveVars>>
    /\ validator # Pending
    /\ accepted = "none"
    /\ accepted' = IF ParseNumber(validator, input) THEN "accepted" ELSE "rejected"
    /\ UNCHANGED <<node, validator, input>>

NumberNext ==
    \/ Translate
    \/ Parse

----------------------------------------------------------------------------
(* Parts of the state a specification leaves alone *)

PacerIdle ==
    /\ now = 0
    /\ maxTokens = 1
    /\ tokens = RateLimiterNew(1, 0).tokens
    /\ lastRefill = 0
    /\ pc = [c \in Callers |-> "idle"]
    /\ wakeAt = [c \in Callers |-> 0]
    /\ admitted = <<>>
    /\ firstIssuedAt = -1
    /\ lastIssuedAt = -1
    /\ lastDoneAt = -1

CompileIdle ==
    /\ doc = <<>>
    /\ enabledTags = {}
    /\ phase = "off"
    /\ pathIdx = 1
    /\ opIdx = 1
    /\ registeredResourceTemplates = {}
    /\ registeredResourceNames = {}
    /\ registeredToolNames = {}
    /\ run = 0
    /\ resourceTable = <<>>
    /\ toolTable = <<>>
    /\ firstTable = <<>>

InvokeIdle ==
    /\ op = SyntheticTool(<<>>)
    /\ args = <<>>
    /\ params = NoParams
    /\ request = NoRequest
    /\ outcome = "none"

ClassifyIdle ==
    /\ status = 0
    /\ errorCode = "none"

TranslateIdle ==
    /\ node = EmptyNode
    /\ validator = Pending
    /\ input = 0
    /\ accepted = "none"

ServeIdle == ServeInit

ExtIdle == ClassifyIdle /\ TranslateIdle /\ ServeIdle

\* the rate limiter under concurrent invocations
InitPacer == PacerInit /\ CompileIdle /\ InvokeIdle /\ ExtIdle
SpecPacer == InitPacer /\ [][PacerNext]_vars

\* the rate limiter under concurrent invocations, with the progress the event
\* loop guarantees
InitPacerLive == PacerInit /\ CompileIdle /\ InvokeIdle /\ ExtIdle
SpecPacerLive == InitPacerLive /\ [][LiveNext]_vars /\ LiveFairness

\* createPosifloraServer on a document
InitCompile == CompileInit /\ PacerIdle /\ InvokeIdle /\ ExtIdle
SpecCompile == InitCompile /\ [][CompileNext]_vars

\* mapHttpStatusCodeToMcpError on every status
InitClassify ==
    ClassifyInit /\ PacerIdle /\ CompileIdle /\ InvokeIdle /\ TranslateIdle /\ ServeIdle
SpecClassify == InitClassify /\ [][ClassifyNext]_vars

\* openApiTypeToZod on every schema node of the catalogue
InitTranslate ==
    TranslateInit /\ PacerIdle /\ CompileIdle /\ InvokeIdle /\ ClassifyIdle /\ ServeIdle
SpecTranslate == InitTranslate /\ [][TranslateNext]_vars

\* openApiTypeToZod on integer / number nodes, then the parse of a number
InitNumber ==
    NumberInit /\ PacerIdle /\ CompileIdle /\ InvokeIdle /\ ClassifyIdle /\ ServeIdle
SpecNumber == InitNumber /\ [][NumberNext]_vars

\* createPosifloraServer on a document, then the invocations of its closures
ServeCompileInit ==
    /\ doc \in ServeDocs
    /\ enabledTags \in TagConfigs
    /\ phase = "resources"
    /\ pathIdx = 1
    /\ opIdx = 1
    /\ registeredResourceTemplates = FreshRegistry.templates
    /\ registeredResourceNames = FreshRegistry.resourceNames
    /\ registeredToolNames = NewToolNameSet({})
    /\ resourceTable = FreshRegistry.resources
    /\ toolTable = FreshRegistry.tools
    /\ run = 1
    /\ firstTable = <<>>

\* new RateLimiter(rps) of the running server; no caller of SpecPacer is active
ServePacerInit ==
    /\ now = 0
    /\ maxTokens = RateLimiterNew(ServeRps, 0).maxTokens
    /\ tokens = RateLimiterNew(ServeRps, 0).tokens
    /\ lastRefill = RateLimiterNew(ServeRps, 0).lastRefill
    /\ pc = [c \in Callers |-> "idle"]
    /\ wakeAt = [c \in Callers |-> 0]
    /\ admitted = <<>>
    /\ firstIssuedAt = -1
    /\ lastIssuedAt = -1
    /\ lastDoneAt = -1

InitServe ==
    ServeCompileInit /\ ServePacerInit /\ InvokeIdle /\ ClassifyIdle /\ TranslateIdle
    /\ ServeInit
SpecServe == InitServe /\ [][ServeNext]_vars

\* the invocation closure of a registered operation on a flat argument bag
InitInvoke == InvokeInit /\ PacerIdle /\ CompileIdle /\ ExtIdle
SpecInvoke == InitInvoke /\ [][InvokeNext]_vars

\* the invocation closure of an operation whose request body is no object, on
\* the argument bags its inputSchema accepts
InitBody == BodyInit /\ PacerIdle /\ CompileIdle /\ ExtIdle
SpecBody == InitBody /\ [][InvokeNext]_vars

----------------------------------------------------------------------------
(* Properties of the rate limiter (SpecPacer) *)

FiveCalls == 5          \* scripts/verify-mcp.ts issues five concurrent calls
MinDurationMs == 1800   \* scripts/verify-mcp.ts expects them to take this long

\* C1: in every reachable state the token count satisfies
\* 0 <= tokens <= capacity, for any number of invocations pending in wait().
C1_TokensWithinCapacity ==
    /\ 0 <= tokens
    /\ tokens <= maxTokens * TokenScale

\* C2: in any time interval of length T ms the limiter admits at most
\* capacity + T * capacity / 1000 calls (both sides scaled by TokenScale).
C2_AdmissionRateBounded ==
    \A i \in DOMAIN admitted : \A j \in DOMAIN admitted :
        i <= j =>
            (j - i + 1) * TokenScale <=
                maxTokens * TokenScale + (admitted[j] - admitted[i]) * maxTokens

\* C3: five calls issued at the same instant against a fresh limiter
\* configured for 2 tokens per second are all complete no earlier than
\* 1800 ms after they were issued.
C3_FiveCallsTakeMinDuration ==
    ( /\ maxTokens = 2
      /\ NumCallers >= FiveCalls
      /\ \A c \in Callers : pc[c] = (IF c <= FiveCalls THEN "done" ELSE "idle")
      /\ firstIssuedAt = lastIssuedAt )
    => lastDoneAt - firstIssuedAt >= MinDurationMs

----------------------------------------------------------------------------
(* Properties of createPosifloraServer (SpecCompile) *)

NoDuplicateNames(table) ==
    \A i \in DOMAIN table : \A j \in DOMAIN table :
        i # j => table[i].name # table[j].name

\* C4: no two entries registered in the operation namespace have the same
\* name, the two discovery tools included, and no two entries registered in
\* the resource namespace have the same name.
C4_NamesUnique ==
    /\ NoDuplicateNames(toolTable)
    /\ NoDuplicateNames(resourceTable)

\* C5: every operation name is at most 64 characters long and consists of
\* characters in [a-z0-9_] only, de-duplicated names included.
C5_NamesShortAndSafe ==
    \A i \in DOMAIN toolTable :
        /\ Len(toolTable[i].name) <= MaxNameLen
        /\ \A k \in DOMAIN toolTable[i].name : IsSafeChar(toolTable[i].name[k])

\* the names registered before entry k of a table
EarlierNames(table, k) == {table[j].name : j \in 1..(k - 1)}
EarlierCandidates(table, k) == {table[j].candidate : j \in 1..(k - 1)}

\* the entries of a table that come from the document
FromDocument(table) == {k \in DOMAIN table : ~table[k].synthetic}

\* name is candidate_i for the smallest i >= 2 such that candidate_i is not in taken
IsSmallestFreeSuffix(name, candidate, taken) ==
    \E i \in FirstSuffix..(Cardinality(taken) + FirstSuffix) :
        /\ name = Suffixed(candidate, i)
        /\ name \notin taken
        /\ \A m \in FirstSuffix..(i - 1) : Suffixed(candidate, m) \in taken

\* C6 as stated: the first operation whose normalised candidate is c gets the
\* name c, and each later operation with the same candidate gets c_i for the
\* smallest i >= 2 such that c_i is not assigned yet.
C6_FirstWithCandidateKeepsIt ==
    \A k \in FromDocument(toolTable) :
        IF toolTable[k].candidate \notin EarlierCandidates(toolTable, k)
          THEN toolTable[k].name = toolTable[k].candidate
          ELSE IsSmallestFreeSuffix(toolTable[k].name, toolTable[k].candidate,
                                    EarlierNames(toolTable, k))

FirstFreeWins(table, ks) ==
    \A k \in ks :
        IF table[k].candidate \notin EarlierNames(table, k)
          THEN table[k].name = table[k].candidate
          ELSE IsSmallestFreeSuffix(table[k].name, table[k].candidate,
                                    EarlierNames(table, k))

\* C6 amended: in document order, an operation whose normalised candidate c is
\* not assigned yet in its namespace gets the name c, and an operation whose
\* candidate is assigned already (to an earlier operation with the same
\* candidate, or as the suffixed name of an earlier operation) gets c_i for
\* the smallest i >= 2 such that c_i is not assigned yet.  The same holds of
\* the resource templates.
C6_FirstFreeNameWins ==
    /\ FirstFreeWins(toolTable, FromDocument(toolTable))
    /\ FirstFreeWins(resourceTable, DOMAIN resourceTable)

\* a third operation meets a candidate that is taken together with its _2 name,
\* or a candidate that no earlier operation had but an earlier suffix took
C6_Witness ==
    /\ phase = "done"
    /\ \E k \in FromDocument(toolTable) :
          /\ toolTable[k].candidate \in EarlierNames(toolTable, k)
          /\ toolTable[k].candidate \notin EarlierCandidates(toolTable, k)
    /\ \E k \in FromDocument(toolTable) :
          toolTable[k].name = Suffixed(toolTable[k].candidate, FirstSuffix + 1)

\* entry k is the first of the table that resolves its candidate
FirstResolution(table, k, candidateOf(_)) ==
    \A j \in 1..(k - 1) : candidateOf(table[j]) # candidateOf(table[k])

RawOfTool(e) == e.operationId
RawOfResource(e) == e.candidate

\* a candidate the sanitising of tool names leaves as it is
IsNormalised(c) == SafeToolName(ToolName(c)) = c

ShapesByName(table) ==
    {<<table[i].name, table[i].shape>> : i \in DOMAIN table}

\* C8: compiling the same document twice with the same configuration gives
\* identical operation-name sets, identical resource-name sets and identical
\* argument shapes per operation.
C8_CompileDeterministic ==
    (run = 2 /\ phase = "done") =>
        /\ Names(toolTable) = Names(firstTable[1].tools)
        /\ Names(resourceTable) = Names(firstTable[1].resources)
        /\ ShapesByName(toolTable) = ShapesByName(firstTable[1].tools)

\* the second compilation of a document with de-duplicated names and a
\* filtered-out operation is complete
C8_Witness ==
    /\ run = 2
    /\ phase = "done"
    /\ enabledTags # {}
    /\ Len(resourceTable) > 1
    /\ \E k \in FromDocument(toolTable) : toolTable[k].name # toolTable[k].candidate

----------------------------------------------------------------------------
(* Properties of the invocation closure (SpecInvoke) *)

\* the content of a partition handed to the client; an absent one has none
FieldsOf(part) == IF part.present THEN part.value.fields ELSE <<>>

\* n is a {variable} of the path template
IsTemplateVariable(pathUrl, n) ==
    \E i \in DOMAIN pathUrl : \E j \in DOMAIN pathUrl :
        /\ i < j
        /\ pathUrl[i] = "{"
        /\ pathUrl[j] = "}"
        /\ n = SubSeq(pathUrl, i + 1, j - 1)
        /\ n # <<>>
        /\ \A k \in (i + 1)..(j - 1) : pathUrl[k] \notin {"{", "}"}

\* n is a declared query parameter of the operation
IsQueryParameter(o, n) ==
    \E i \in DOMAIN o.allParams :
        o.allParams[i].name = n /\ o.allParams[i].in = "query"

\* n is declared somewhere for the operation: in the template, as a
\* parameter, or as an argument the request body contributes
IsDeclared(o, n) ==
    \/ IsTemplateVariable(o.pathUrl, n)
    \/ \E i \in DOMAIN o.allParams : o.allParams[i].name = n
    \/ n \in DOMAIN BodyShape(o.requestBody)

\* the bag without the arguments that are not declared for the operation
WithoutUndeclared(o, a) ==
    [n \in DOMAIN a |-> IF IsDeclared(o, n) THEN a[n] ELSE "undefined"]

\* C9: path holds exactly the defined arguments named by a {variable} of the
\* template, query exactly the defined arguments that are declared query
\* parameters, and an argument declared nowhere is in none of path, query and
\* body and does not change whether, or with what, the client is called.
C9_RoutingByDeclaration ==
    /\ outcome = "called" =>
          /\ \A n \in ArgNames :
                /\ n \in DOMAIN FieldsOf(request.path)
                      <=> (IsTemplateVariable(op.pathUrl, n) /\ args[n] # "undefined")
                /\ n \in DOMAIN FieldsOf(request.query)
                      <=> (IsQueryParameter(op, n) /\ args[n] # "undefined")
          /\ \A n \in DOMAIN FieldsOf(request.path) :
                n \in ArgNames /\ FieldsOf(request.path)[n] = args[n]
          /\ \A n \in DOMAIN FieldsOf(request.query) :
                n \in ArgNames /\ FieldsOf(request.query)[n] = args[n]
          /\ \A n \in ArgNames :
                (~IsDeclared(op, n) /\ request.body.present
                 /\ request.body.value.kind = "fields")
                => n \notin DOMAIN request.body.value.fields
    /\ outcome \in {"called", "raised"} =>
          LET stripped == ClientCall(op, AssembleParams(op, WithoutUndeclared(op, args)))
          IN /\ outcome = stripped.outcome
             /\ request = stripped.request

\* GET /v1/items/{id} with query parameter limit is called with id, limit and
\* an undeclared argument: path and query are populated, the body is absent
C9_Witness ==
    /\ outcome = "called"
    /\ op.pathUrl = ItemUrl
    /\ op.method = GET
    /\ args[<<"i", "d">>] # "undefined"
    /\ args[<<"l", "i", "m", "i", "t">>] # "undefined"
    /\ args[<<"e", "x", "t", "r", "a">>] # "undefined"
    /\ request.path.present
    /\ request.query.present
    /\ ~request.body.present

\* C10: for an operation whose HTTP method is not POST, PUT or PATCH the
\* request handed to the client has no body, whatever the argument bag, also
\* when the operation declares a request body and the bag supplies its fields.
C10_NoBodyUnlessPostPutPatch ==
    ( /\ outcome = "called"
      /\ request.method \notin {<<"P", "O", "S", "T">>, <<"P", "U", "T">>, <<"P", "A", "T", "C", "H">>} )
    => ~request.body.present

\* DELETE with a declared request body is called with the body's fields supplied
C10_Witness ==
    /\ outcome = "called"
    /\ request.method = <<"D", "E", "L", "E", "T", "E">>
    /\ op.requestBody.present
    /\ \A n \in DOMAIN BodyShape(op.requestBody) : args[n] # "undefined"
    /\ ~request.body.present

----------------------------------------------------------------------------
(* Properties of the status mapping (SpecClassify) *)

\* the outcome categories of the specification and the ErrorCode each stands for
ValidationFailure == InvalidParams
AuthFailure == InvalidRequest
MethodUnsupported == MethodNotFound
UpstreamFailure == InternalError

\* C11: classify is total on HTTP statuses: 400 and 404 give ValidationFailure,
\* 401 and 403 AuthFailure, 405 MethodUnsupported, every other status
\* (>= 500, 418, ...) UpstreamFailure.
C11_ClassifyMapping ==
    errorCode # "none" =>
        /\ errorCode \in {ValidationFailure, AuthFailure, MethodUnsupported,
                          UpstreamFailure}
        /\ (status \in {400, 404} => errorCode = ValidationFailure)
        /\ (status \in {401, 403} => errorCode = AuthFailure)
        /\ (status = 405 => errorCode = MethodUnsupported)
        /\ (status \notin {400, 401, 403, 404, 405} => errorCode = UpstreamFailure)

\* C11 witness: the status 404 has been classified
C11_Witness ==
    /\ status = 404
    /\ errorCode = ValidationFailure

----------------------------------------------------------------------------
(* Properties of the running server (SpecServe) *)

\* an HTTP-backed invocation has ended
Ended(k) == kind = k /\ stage = "idle" /\ result.kind # "none"

\* the HTTP collaborator answered the invocation in full: status and body
Answered == response.payload # "none"

\* C12: when the HTTP collaborator answers an operation invocation with a
\* non-2xx status s, the invocation returns (does not raise) a result marked
\* isError whose text is "API Error (s): " followed by the error payload, or
\* by a default text when there is no payload.
C12_SoftErrorOnNon2xx ==
    (Ended("tool") /\ Answered /\ ~Ok(response.status)) =>
        /\ result.kind = "returned"
        /\ result.isError
        /\ result.text.form = "API Error"
        /\ result.text.status = response.status
        /\ result.text.payload =
               IF response.payload \in {"empty", "null"} THEN "default"
               ELSE response.payload

\* C12 witness: a tool call answered 400 with a JSON payload has returned
C12_Witness ==
    /\ Ended("tool")
    /\ response = [status |-> 400, payload |-> "json"]
    /\ result.isError

\* C13: a resource read whose HTTP call returns a non-2xx status or fails at
\* transport level never returns a contents payload: it raises a structured
\* error carrying the category the classifier maps the status to
\* (UpstreamFailure when there is no status).
C13_ResourceReadRaisesClassified ==
    (Ended("resource") /\ (~Answered \/ ~Ok(response.status))) =>
        /\ result.kind = "raised"
        /\ result.text.form # "contents"
        /\ result.class = "McpError"
        /\ result.errorCode =
               IF Answered THEN MapHttpStatusCodeToMcpError(response.status)
               ELSE UpstreamFailure

\* C14: an operation invocation closure never raises: an exception thrown
\* during argument assembly or by the HTTP call is returned as a soft isError
\* result classified as UpstreamFailure whose text keeps the exception message.
C14_ToolClosureNeverRaises ==
    Ended("tool") =>
        /\ result.kind = "returned"
        /\ (outcome = "raised" \/ ~Answered) =>
              /\ result.isError
              /\ result.errorCode = UpstreamFailure
              /\ result.text.form = "message"

\* C18: every outbound HTTP call is bound to the 30-second deadline: no
\* invocation is pending on the HTTP call later than 30 seconds after the call
\* was issued, and an invocation whose call was aborted ends with an
\* UpstreamFailure-class outcome and no partial result.
C18_CallBoundByDeadline ==
    /\ stage \in {"fetching", "reading"} => now <= fetchAt + AbortAfterMs
    /\ (stage = "idle" /\ result.class = "AbortError") =>
          /\ result.errorCode = UpstreamFailure
          /\ result.text.form \notin {"data", "contents"}

\* C19: invoking list_tags or get_server_status, in any state, issues no call
\* to the HTTP collaborator and leaves tokens and lastRefill of the rate
\* limiter unchanged.
C19_DiscoveryToolsTouchNothing ==
    [][reply' # reply =>
         /\ httpCalls' = httpCalls
         /\ tokens' = tokens
         /\ lastRefill' = lastRefill
         /\ stage' = stage]_vars

\* C19 witness: list_tags has answered while a tool call is pending on fetchFn
C19_Witness ==
    /\ reply.form = "tags"
    /\ stage = "fetching"
    /\ httpCalls = 1

\* C20: after compilation no invocation or resource read, successful or
\* failing, adds, removes or renames a tool or a resource template, and the
\* counts get_server_status reports stay the same.
C20_TableReadOnlyAfterCompile ==
    [][phase = "done" =>
         /\ toolTable' = toolTable
         /\ resourceTable' = resourceTable
         /\ StatusReport' = StatusReport]_vars

\* C20 witness: get_server_status has answered after an invocation that raised
\* and with every allowed HTTP call made
C20_Witness ==
    /\ reply.form = "status"
    /\ result.kind = "raised"
    /\ httpCalls = MaxHttpCalls

\* C21: every operation invocation or resource read that reaches the HTTP
\* collaborator debits the rate limiter by exactly one token, in the step that
\* issues the call and before fetchFn is called (the tokens are debited only
\* for a call that is issued); a single call against a full bucket leaves
\* tokens = capacity - 1.
C21_OneDebitPerCall ==
    /\ [][/\ httpCalls' # httpCalls =>
               /\ httpCalls' = httpCalls + 1
               /\ tokens' = Refill(tokens, lastRefill, maxTokens, now) - TokenScale
               /\ stage' = "fetching"
               /\ fetchAt' = now
          /\ tokens' < tokens => httpCalls' = httpCalls + 1]_vars
    /\ []((httpCalls = 1 /\ stage # "waiting") =>
             tokens = (maxTokens - 1) * TokenScale)

\* C21 witness: the only call made so far, a tool invocation issued against a
\* full bucket, was answered 200 with a JSON payload and returned it
C21_Witness ==
    /\ httpCalls = 1
    /\ Ended("tool")
    /\ response = [status |-> 200, payload |-> "json"]
    /\ result.text.form = "data"
    /\ tokens = (maxTokens - 1) * TokenScale

----------------------------------------------------------------------------
(* Properties of the derived names (SpecCompile) *)

\* a letter or a digit
IsAlphanumeric(ch) ==
    ch \in RangeOf(LowerChars) \cup RangeOf(UpperChars) \cup RangeOf(DigitChars)

\* every maximal run of characters that are no letters or digits becomes one "_"
RECURSIVE CollapseRuns(_)
CollapseRuns(s) ==
    IF s = <<>> THEN <<>>
    ELSE IF ~IsAlphanumeric(Head(s))
      THEN IF Len(s) > 1 /\ ~IsAlphanumeric(s[2])
             THEN CollapseRuns(Tail(s))
             ELSE <<"_">> \o CollapseRuns(Tail(s))
      ELSE <<Head(s)>> \o CollapseRuns(Tail(s))

\* lower-cased, runs collapsed, truncated to 64 characters
CollapsedName(c) == Substring0(CollapseRuns(ToLowerCase(c)), MaxNameLen)

\* two consecutive underscores
HasDoubleUnderscore(s) ==
    \E i \in DOMAIN s : i < Len(s) /\ s[i] = "_" /\ s[i + 1] = "_"

\* C22: the name derived from a raw candidate (before de-duplication) is the
\* candidate lower-cased, with every maximal run of non-alphanumeric
\* characters collapsed to a single "_", truncated to 64 characters; a
\* candidate synthesised as {method}_{path} yields a name without two
\* consecutive underscores.
C22_NameIsCollapsedCandidate ==
    \A i \in DOMAIN toolTable :
        ~toolTable[i].synthetic =>
            /\ toolTable[i].candidate = CollapsedName(toolTable[i].operationId)
            /\ ~HasDoubleUnderscore(toolTable[i].candidate)

----------------------------------------------------------------------------
(* Properties of the argument shape (SpecCompile) *)

\* the validator passes an argument that is not supplied
AcceptsMissing(v) == v.kind \in {"optional", "any"}

\* the request-body schema of a registered tool is object-shaped
HasObjectBody(e) ==
    /\ ~e.synthetic
    /\ e.requestBody.present
    /\ e.requestBody.hasSchema
    /\ OpenApiTypeToZod(e.requestBody.schema, Schemas).kind = "object"

\* C23: when the request-body schema is object-shaped, every body field
\* spliced into the flat argument shape is optional, whether or not the body
\* schema lists it in `required`: an invocation that omits it passes argument
\* validation.
C23_BodyFieldsForcedOptional ==
    \A i \in DOMAIN toolTable :
        HasObjectBody(toolTable[i]) =>
            \A n \in DOMAIN OpenApiTypeToZod(toolTable[i].requestBody.schema,
                                             Schemas).shape :
                /\ n \in DOMAIN toolTable[i].shape
                /\ AcceptsMissing(toolTable[i].shape[n])

----------------------------------------------------------------------------
(* Properties of request bodies that are no objects (SpecBody) *)

\* the kinds of defined value a body argument is supplied with
DefinedKinds == {"object", "array", "emptyArray", "string", "number", "boolean"}

\* C24: for a POST/PUT/PATCH operation whose request-body schema is not
\* object-shaped, the argument shape has a single body argument, named after
\* the last segment of the schema's $ref or `body` when there is no $ref, and
\* whenever that argument is supplied with a defined value (object, array,
\* string, number, boolean) the body handed to the HTTP collaborator is that
\* value.
C24_NonObjectBodyHandedOver ==
    LET schema == op.requestBody.schema
        argName == IF "$ref" \in schema.keys THEN schema.ref ELSE <<"b", "o", "d", "y">>
    IN (/\ op.method \in {POST, PUT, PATCH}
        /\ op.requestBody.present
        /\ OpenApiTypeToZod(schema, Schemas).kind # "object") =>
          /\ argName \in DOMAIN op.shape
          /\ DOMAIN op.shape \subseteq
                 {argName} \cup {op.allParams[i].name : i \in DOMAIN op.allParams}
          /\ (outcome \in {"called", "raised"} /\ Arg(args, argName) \in DefinedKinds) =>
                /\ outcome = "called"
                /\ request.body.present
                /\ request.body.value = [kind |-> "value", value |-> Arg(args, argName)]

----------------------------------------------------------------------------
(* Properties of the request handed to the client (SpecInvoke) *)

\* an object without keys
EmptyObject == [kind |-> "fields", fields |-> <<>>]

\* C25: a partition of the assembled request (path, query or body) is handed
\* to the HTTP collaborator as absent exactly when it has zero keys, and as
\* the populated object otherwise; an empty object is never passed.
C25_EmptyPartitionsAbsent ==
    outcome = "called" =>
        /\ request.path =
               IF DOMAIN params.path = {} THEN Absent
               ELSE Present([kind |-> "fields", fields |-> params.path])
        /\ request.query =
               IF DOMAIN params.query = {} THEN Absent
               ELSE Present([kind |-> "fields", fields |-> params.query])
        /\ request.body =
               IF KeyCount(params.body) = 0 THEN Absent ELSE Present(params.body)
        /\ \A part \in {request.path, request.query, request.body} :
               part.present => part.value # EmptyObject

\* C25 witness: a call was made with path arguments and body fields but
\* without any query argument: path and body are passed, query is absent
C25_Witness ==
    /\ outcome = "called"
    /\ DOMAIN params.path # {}
    /\ DOMAIN params.query = {}
    /\ params.body.kind = "fields"
    /\ DOMAIN params.body.fields # {}
    /\ request.path.present
    /\ ~request.query.present
    /\ request.body.present

----------------------------------------------------------------------------
(* Properties of numeric validators (SpecNumber) *)

\* the lower bound the node states holds for the number x: exclusive at a
\* numeric exclusiveMinimum, else at minimum (exclusive when exclusiveMinimum
\* is true)
LowerBoundHolds(schema, x) ==
    IF "exclusiveMinimum" \in schema.keys /\ schema.exclusiveMinimum.is = "number"
      THEN x > schema.exclusiveMinimum.n
    ELSE IF "minimum" \notin schema.keys THEN TRUE
    ELSE IF "exclusiveMinimum" \in schema.keys /\ schema.exclusiveMinimum.b
      THEN x > schema.minimum
      ELSE x >= schema.minimum

\* the same for the upper bound
UpperBoundHolds(schema, x) ==
    IF "exclusiveMaximum" \in schema.keys /\ schema.exclusiveMaximum.is = "number"
      THEN x < schema.exclusiveMaximum.n
    ELSE IF "maximum" \notin schema.keys THEN TRUE
    ELSE IF "exclusiveMaximum" \in schema.keys /\ schema.exclusiveMaximum.b
      THEN x < schema.maximum
      ELSE x <= schema.maximum

\* C26: for an integer / number node and every integer v, v is accepted iff it
\* satisfies the lower bound, the upper bound and multipleOf; a bound is
\* inclusive at minimum / maximum unless exclusiveMinimum / exclusiveMaximum is
\* true (exclusive at minimum / maximum) or is itself a number (exclusive at
\* that number, also when minimum / maximum is present as well).
C26_NumericBounds ==
    accepted # "none" =>
        (accepted = "accepted" <=>
            /\ LowerBoundHolds(node, input)
            /\ UpperBoundHolds(node, input)
            /\ ("multipleOf" \in node.keys => input % node.multipleOf = 0))

----------------------------------------------------------------------------
(* Progress of RateLimiter.wait (SpecPacerLive) *)

\* C28: every call of RateLimiter.wait with capacity >= 1 returns: the caller
\* suspends at most once, for (1 - tokens) / refillRate milliseconds, and is
\* then admitted without testing the bucket again, for any number of
\* concurrent callers; no caller waits forever.
C28_WaitReturns ==
    /\ \A c \in LiveCallers : (pc[c] = "issued") ~> (pc[c] = "fetching")
    /\ [][\A c \in LiveCallers :
            /\ (pc[c] # "sleeping" /\ pc'[c] = "sleeping") =>
                  /\ pc[c] = "issued"
                  /\ tokens' < TokenScale
                  /\ wakeAt'[c] = now + CeilDiv(TokenScale - tokens', maxTokens)
            /\ (pc[c] = "sleeping" /\ pc'[c] # "sleeping") =>
                  /\ pc'[c] = "fetching"
                  /\ now >= wakeAt[c]
                  /\ admitted' = Append(admitted, now)
            /\ pc[c] = "fetching" => pc'[c] = "fetching"]_vars

\* C28 witness: every caller was admitted, the last of them after its timer
\* fired, and without a second test the bucket was overdrawn
C28_Witness ==
    /\ \A c \in LiveCallers : pc[c] = "fetching"
    /\ Len(admitted) = NumLiveCallers
    /\ admitted[NumLiveCallers] > lastIssuedAt
    /\ tokens < 0

----------------------------------------------------------------------------
(* Properties of the argument routing (SpecInvoke) *)

\* the argument names routed to the body of the request
BodyNames ==
    IF params.body.kind = "fields" THEN DOMAIN params.body.fields
    ELSE {BodyArgName(op.requestBody.schema)}

\* C29: for every operation and every flat argument bag, each supplied
\* argument is routed to at most one of path, query and body: no argument name
\* appears in two partitions of the same assembled request, also when a body
\* field or query parameter has the name of a path-template variable.
C29_RoutedToOnePartition ==
    outcome # "none" =>
        /\ DOMAIN params.path \cap DOMAIN params.query = {}
        /\ DOMAIN params.path \cap BodyNames = {}
        /\ DOMAIN params.query \cap BodyNames = {}

----------------------------------------------------------------------------
(* Properties of the schema translation (SpecTranslate) *)

\* the validator classes of zod that openApiTypeToZod builds
IsValidator(v) ==
    v.kind \in {"any", "string", "number", "boolean", "enum", "datetime", "array",
                "record", "union", "object", "optional"}

\* C15: for every schema node, openApiTypeToZod terminates and returns a
\* validator without raising, also when the $ref chain of the node is cyclic
\* or self-referential and when the node is malformed (empty oneOf / anyOf /
\* allOf, unrecognised type).
C15_TranslateNeverRaises ==
    validator # Pending => IsValidator(validator)

\* the validators the members of the allOf node translate to, one by one
MemberValidators ==
    [i \in DOMAIN node.variants |->
        OpenApiTypeToZod(node.variants[i], TranslateSchemas)]

\* the node is an allOf node with members, all of which translate
IsAllOfTranslated ==
    /\ validator # Pending
    /\ "allOf" \in node.keys
    /\ node.keys \cap {"$ref", "oneOf", "anyOf"} = {}
    /\ node.variants # <<>>
    /\ \A i \in DOMAIN node.variants : ~IsError(MemberValidators[i])

\* the last member that has the field n
LastWith(n) ==
    CHOOSE i \in DOMAIN MemberValidators :
        /\ n \in DOMAIN MemberValidators[i].shape
        /\ \A j \in DOMAIN MemberValidators :
               n \in DOMAIN MemberValidators[j].shape => j <= i

\* C27: for an allOf node, if every member translates to an object-shaped
\* validator the result's field set is the union of the members' field sets,
\* the later member's field winning on a key collision; otherwise the result
\* is exactly the first member's validator.
C27_AllOfMergesOrFallsBack ==
    IsAllOfTranslated =>
        IF \A i \in DOMAIN MemberValidators : MemberValidators[i].kind = "object"
          THEN /\ validator.kind = "object"
               /\ DOMAIN validator.shape =
                      UNION {DOMAIN MemberValidators[i].shape :
                                i \in DOMAIN MemberValidators}
               /\ \A n \in DOMAIN validator.shape :
                      validator.shape[n] = MemberValidators[LastWith(n)].shape[n]
          ELSE validator = MemberValidators[1]

\* C27 witness: an allOf node of three object members was translated; two of
\* its fields are declared differently by an earlier and a later member, and
\* the result has the later declarations
C27_Witness ==
    /\ IsAllOfTranslated
    /\ Len(node.variants) = 3
    /\ validator.kind = "object"
    /\ \E n \in DOMAIN validator.shape :
          /\ n \in DOMAIN MemberValidators[1].shape
          /\ n \in DOMAIN MemberValidators[3].shape
          /\ MemberValidators[1].shape[n] # MemberValidators[3].shape[n]
          /\ validator.shape[n] = MemberValidators[3].shape[n]
    /\ \E n \in DOMAIN validator.shape :
          /\ n \in DOMAIN MemberValidators[1].shape
          /\ n \in DOMAIN MemberValidators[2].shape
          /\ n \notin DOMAIN MemberValidators[3].shape
          /\ MemberValidators[1].shape[n] # MemberValidators[2].shape[n]
          /\ validator.shape[n] = MemberValidators[2].shape[n]

----------------------------------------------------------------------------
(* Properties of createPosifloraServer on malformed documents and of the    *)
(* tag filter (SpecCompile)                                                 *)

\* C16: createPosifloraServer completes and returns its registrations for
\* every parsed document: path items with extra non-operation keys or
\* non-object members, and operations whose identifier equals the name of a
\* discovery tool, never make it raise.
C16_CompileNeverRaises ==
    phase # "raised"

\* the tool loop of createPosifloraServer has run to its end
ToolLoopDone == phase \in {"list_tags", "get_server_status", "done"}

\* the operation at position q of the document has a tool registered for it
HasTool(q) ==
    \E i \in DOMAIN toolTable :
        /\ ~toolTable[i].synthetic
        /\ toolTable[i].pathUrl = doc[q[1]].url
        /\ toolTable[i].method = doc[q[1]].entries[q[2]].method

\* C17: an operation of the document is registered as a tool if and only if
\* the tag allow-list is empty or at least one of the operation's tags is in
\* it; with an empty allow-list every (path, method) pair is registered.
C17_RegisteredIffTagEnabled ==
    ToolLoopDone =>
        \A q \in OpPositions(doc) :
            HasTool(q) <=>
                \/ enabledTags = {}
                \/ doc[q[1]].entries[q[2]].tags \cap enabledTags # {}

\* C17 witness: under the allow-list {Items} an operation tagged Admin and
\* Items is registered and an operation tagged Admin only is not
C17_Witness ==
    /\ phase = "done"
    /\ enabledTags = {"Items"}
    /\ \E q \in OpPositions(doc) :
          /\ doc[q[1]].entries[q[2]].tags = {"Admin", "Items"}
          /\ HasTool(q)
    /\ \E q \in OpPositions(doc) :
          /\ doc[q[1]].entries[q[2]].tags = {"Admin"}
          /\ ~HasTool(q)

----------------------------------------------------------------------------
(* Properties of the resource templates under the tag filter (SpecCompile) *)

\* the paths of the document that have a GET operation and contain a "{"
TemplatedGetPaths ==
    {doc[p].url : p \in {q \in DOMAIN doc :
        /\ \E i \in DOMAIN doc[q].url : doc[q].url[i] = "{"
        /\ \E e \in DOMAIN doc[q].entries : doc[q].entries[e].method = GET}}

\* C30: the tag allow-list has no effect on resource templates: for every
\* allow-list, the registered resource templates are exactly the document
\* paths that have a GET operation and contain a "{", also when the tags of
\* the GET operation do not intersect a non-empty allow-list.
C30_ResourcesIgnoreTagFilter ==
    phase # "resources" =>
        /\ {resourceTable[i].pathUrl : i \in DOMAIN resourceTable} = TemplatedGetPaths
        /\ registeredResourceTemplates = {ApiScheme \o u : u \in TemplatedGetPaths}

\* C30 witness: under the allow-list {Items} the GET operation tagged Admin
\* only has a resource template and no tool
C30_Witness ==
    /\ phase = "done"
    /\ enabledTags = {"Items"}
    /\ \E q \in OpPositions(doc) :
          /\ doc[q[1]].entries[q[2]].method = GET
          /\ doc[q[1]].entries[q[2]].tags = {"Admin"}
          /\ ~HasTool(q)
          /\ \E i \in DOMAIN resourceTable : resourceTable[i].pathUrl = doc[q[1]].url

====
